---- MODULE Spec2Model ----
(***************************************************************************)
(* ResearchTwin core: the S-Index scorer (backend/qic_index.py), the name  *)
(* matcher and ORCID -> Semantic Scholar resolver (connectors/orcid.py),   *)
(* the affiliation merger (connectors/affiliations.py), the Figshare       *)
(* deduplicator and the researcher score (backend/qic_index.py), the       *)
(* author fetch (connectors/semantic_scholar.py), the geocoder             *)
(* (backend/geocoder.py), the source fetch and merge (backend/main.py),    *)
(* the cache (backend/cache.py), the profile update tokens                 *)
(* (backend/researchers.py) and the rate limiters of the chat endpoints    *)
(* (backend/main.py).                                                      *)
(*                                                                         *)
(* Each component has its own variables and its own specification; a       *)
(* specification leaves the other components' variables at their idle      *)
(* values.  Strings the code inspects character by character are           *)
(* sequences of one-character strings.  Floating-point quantities are      *)
(* fixed-point integers: quality in 1/100, impact and collaboration in     *)
(* 1/10000 before rounding, rounded outputs in 1/1000.                     *)
(***************************************************************************)
EXTENDS Integers, Sequences, FiniteSets, TLC

VARIABLES
    item,        \* score_item: the normalized artifact passed in
    scored,      \* score_item: <<the returned dict>>, <<>> before the call
    display_name,  \* _name_matches: first argument
    author_name,   \* _name_matches: second argument
    matched,       \* _name_matches: <<the returned bool>>, <<>> before the call
    \* resolve_s2_id: what the two upstream services hold
    s2Authors,     \* s2Authors[j]: the S2 author list of the j-th DOI of the ORCID profile
    s2Search,      \* the S2 author-search hits for the display name
    paperCount,    \* S2 paperCount of each author id
    \* resolve_s2_id: the call
    resolve_orcid, \* argument orcid
    resolve_name,  \* argument display_name
    orcid_requests,  \* history: the requests sent to the ORCID API by this call
    pc,            \* where the coroutine is suspended, "done" once it has returned or raised
    dois,          \* the DOIs returned by _get_dois_from_orcid, as indices into s2Authors
    doi_i,         \* index of the next DOI of the for loop
    id_counts,     \* Counter of name-matched author ids
    doiOk,         \* history: for each DOI looked up, whether S2 answered 200
    doi_seen,      \* history: the DOIs looked up, in the order of their lookups
    doi_log,       \* history: the requests sent and answered by the latest per-DOI lookup,
                   \* forgotten once the name search starts
    searchOk,      \* history: "none" before the name search, then "ok" or "failed"
    candidates,    \* list(candidates)
    cand_k,        \* _pick_largest_profile: index of the next candidate
    best_id,       \* _pick_largest_profile: best_id
    best_count,    \* _pick_largest_profile: best_count
    pickOk,        \* history: the candidates whose paperCount request answered 200
    result,        \* the returned id, None when unresolved
    raised,        \* TRUE when the call ended by an exception
    \* fetch_affiliations: the arguments and what the three providers hold
    semantic_scholar_id,  \* argument, "" when the researcher has none
    orcid,                \* argument, "" when the researcher has none
    s2_data,              \* the "affiliations" value of the S2 author JSON
    orcid_data,           \* the employment summaries of the ORCID record
    openalex_data,        \* last_known_institutions and affiliations of the OpenAlex author
    cache_store,          \* the cache: <<>> for a missing or expired key, else <<the stored value>>
    \* fetch_affiliations: the call
    aff_pc,        \* "idle" before a call, "gather" while the three tasks run, "done" after
    task_pc,       \* per provider: "new", "request", "retry" (S2's sleep after a 429), "done"
    task_value,    \* per provider: the list its fetcher returned
    task_ok,       \* history, per provider: the list came from the cache or a 200 answer
    task_requests, \* history, per provider: the requests its fetcher has sent in this call
    completed,     \* history: the providers in the order their tasks finished
    aff_results,   \* the returned list
    aff_raised,    \* TRUE when the call ended by an exception
    articles,      \* _deduplicate_figshare: the argument
    dedup_pc,      \* _deduplicate_figshare: "phase1", "phase2", "phase3", "done" once returned
    standalone,    \* _deduplicate_figshare: standalone
    components,    \* _deduplicate_figshare: components, pairs of group key and article
    groups,        \* _deduplicate_figshare: groups, the dict in insertion order
    deduped,       \* _deduplicate_figshare: the returned list
    dedup_prev,    \* history: <<argument and result of the previous call>> once its result is fed back
    \* compute_researcher_qic: figshare_data["articles"] is the variable articles
    top_repos,     \* github_data["top_repos"]
    h_index,       \* semantic_scholar_data["h_index"]
    citation_count,  \* semantic_scholar_data["citation_count"]
    qic_pc,        \* "idle", "dedup" while _deduplicate_figshare runs, "done" once returned
    qic,           \* <<the returned dict>>, <<>> before the return
    qic_prev,      \* history: <<the dict the previous call returned>> once the inputs are reordered
    \* fetch_author_data: what Semantic Scholar and the cache hold, and the call
    author_json,   \* the JSON of /author/{id}
    papers_json,   \* the JSON of /author/{id}/papers
    author_cache,  \* cache.get("s2:author:{id}"): <<>> on a miss, else <<the stored dict>>
    fetch_pc,      \* "idle", "request" (awaiting client.get), "sleep" (awaiting asyncio.sleep), "done"
    fetch_call,    \* which _fetch_with_retry call is running: 1 the author, 2 the papers
    attempt,       \* _fetch_with_retry: attempt
    fetch_raw,     \* what the finished _fetch_with_retry calls returned: <<raw>>, <<raw, papers_raw>>
    fetch_log,     \* history: the requests sent and the sleeps started, in order
    fetch_result,  \* <<the returned dict>>, <<>> before the return
    fetch_raised,  \* TRUE when the call ended by an exception
    \* geocode: concurrent calls on one event loop
    geo_query,     \* per call: the argument
    geo_pc,        \* per call: "new", "wait" (for the lock), "request", "sleep", "done"
    geo_lock,      \* _nominatim_lock: 0 when free, else the call that holds it
    geo_waiters,   \* _nominatim_lock: the calls waiting in acquire(), first come first
    geo_cache,     \* the cache, by cache key: <<>> on a miss, else <<the stored value>>
    geo_results,   \* per call: results, the decoded answer of Nominatim
    geo_return,    \* per call: <<the returned value>>, <<>> before the return
    geo_clock,     \* the time, in tenths of a second
    geo_wake,      \* per call: when its asyncio.sleep(1.1) ends
    geo_log,       \* history: the Nominatim requests started and completed, with their times
    \* _fetch_all and the score computed from what it returns
    fa_ids,        \* the sources for which the researcher has an identifier
    fa_pc,         \* "idle", "gather" while the four tasks run, "done" once returned or raised
    fa_results,    \* per source: <<>> while its task runs, else what it returned or that it raised
    fa_out,        \* <<the locals of _fetch_all at its return>>, <<>> before: the returned
                   \* merged_academic, gh_data, fs_data, and s2_data, gs_data
    fa_raised,     \* TRUE when _fetch_all or the score computation ended by an exception
    \* cache.py: the cache directory and the calls made on it
    cache_files,   \* per path: <<>> when there is no file, else <<the chunks written to it>>
    cache_now,     \* time.time(), in seconds
    cache_op,      \* the last call: "none", "get", "set", "set failed", "invalidate", "tick"
    cache_got,     \* the last get: its key, what it returned, whether it raised
    cache_last,    \* history, per key: <<the entry of the last completed set>>, <<>> when
                   \* there is none, it was invalidated, or a later set failed
    \* researchers.py: the update_tokens table and the calls made on it
    tok_rows,      \* the rows of update_tokens, by id
    tok_now,       \* datetime.now(timezone.utc), in ticks
    tok_issued,    \* history, per row: the plaintext code and the tick of its creation
    tok_hits,      \* history, per row: how often it made verify_update_token return True
    tok_last,      \* history: <<the verify_update_token call that has just returned>>
    \* main.py: the three RateLimiter objects and the requests to /chat and /chat/byok
    rl_hits,       \* per limiter and key: _hits[key], the recorded times
    rl_now,        \* time.time(), in ticks
    rl_allowed,    \* history, per limiter and key: the times, not more than window_seconds
                   \* ago, of the calls is_allowed returned True for
    chat_last      \* history: <<endpoint, client ip and outcome of the request just answered>>

scoreVars == <<item, scored>>
nameVars == <<display_name, author_name, matched>>
worldVars == <<s2Authors, s2Search, paperCount, resolve_orcid, resolve_name>>
resolveVars == <<worldVars, pc, orcid_requests, dois, doi_i, id_counts, doiOk, doi_seen, doi_log, searchOk, candidates,
                 cand_k, best_id, best_count, pickOk, result, raised>>

\* What each component leaves alone: the variables of the other components.
affWorldVars == <<semantic_scholar_id, orcid, s2_data, orcid_data, openalex_data>>
affVars == <<affWorldVars, cache_store, aff_pc, task_pc, task_value, task_ok, task_requests, completed,
             aff_results, aff_raised>>
dedupVars == <<articles, dedup_pc, standalone, components, groups, deduped, dedup_prev>>
qicVars == <<top_repos, h_index, citation_count, qic_pc, qic, qic_prev>>
fetchVars == <<author_json, papers_json, author_cache, fetch_pc, fetch_call, attempt, fetch_raw,
               fetch_log, fetch_result, fetch_raised>>
geoVars == <<geo_query, geo_pc, geo_lock, geo_waiters, geo_cache, geo_results, geo_return,
             geo_clock, geo_wake, geo_log>>
faVars == <<fa_ids, fa_pc, fa_results, fa_out, fa_raised>>
cacheVars == <<cache_files, cache_now, cache_op, cache_got, cache_last>>
tokVars == <<tok_rows, tok_now, tok_issued, tok_hits, tok_last>>
chatVars == <<rl_hits, rl_now, rl_allowed, chat_last>>
notScore == <<nameVars, resolveVars, affVars, dedupVars, qicVars, fetchVars, geoVars, faVars, cacheVars, tokVars, chatVars>>
notName == <<scoreVars, resolveVars, affVars, dedupVars, qicVars, fetchVars, geoVars, faVars, cacheVars, tokVars, chatVars>>
notResolve == <<scoreVars, nameVars, affVars, dedupVars, qicVars, fetchVars, geoVars, faVars, cacheVars, tokVars, chatVars>>
notAff == <<scoreVars, nameVars, resolveVars, dedupVars, qicVars, fetchVars, geoVars, faVars, cacheVars, tokVars, chatVars>>
notDedup == <<scoreVars, nameVars, resolveVars, affVars, qicVars, fetchVars, geoVars, faVars, cacheVars, tokVars, chatVars>>
notQic == <<scoreVars, nameVars, resolveVars, affVars, fetchVars, geoVars, faVars, cacheVars, tokVars, chatVars>>
notFetch == <<scoreVars, nameVars, resolveVars, affVars, dedupVars, qicVars, geoVars, faVars, cacheVars, tokVars, chatVars>>
notGeo == <<scoreVars, nameVars, resolveVars, affVars, dedupVars, qicVars, fetchVars, faVars, cacheVars, tokVars, chatVars>>
notFa == <<scoreVars, nameVars, resolveVars, affVars, dedupVars, qicVars, fetchVars, geoVars, cacheVars, tokVars, chatVars>>
notCache == <<scoreVars, nameVars, resolveVars, affVars, dedupVars, qicVars, fetchVars, geoVars, faVars, tokVars, chatVars>>
notFaDedupQic == <<scoreVars, nameVars, resolveVars, affVars, fetchVars, geoVars, cacheVars, tokVars, chatVars>>
notTok == <<scoreVars, nameVars, resolveVars, affVars, dedupVars, qicVars, fetchVars, geoVars, faVars, cacheVars, chatVars>>
notChat == <<scoreVars, nameVars, resolveVars, affVars, dedupVars, qicVars, fetchVars, geoVars, faVars, cacheVars, tokVars>>

\* Python's None where a string is expected.
None == "None"

Max(a, b) == IF a >= b THEN a ELSE b

(***************************************************************************)
(* Impact scorer: backend/qic_index.py                                     *)
(***************************************************************************)

\* FIELD_MEDIANS = {"dataset": 50, "code": 10}; .get(field_type, 10)
MedianDataset == 50
MedianCode == 10
FIELD_MEDIANS(field_type) ==
    IF field_type = "dataset" THEN MedianDataset ELSE MedianCode

\* math.log(1 + r / mu) in 1/10000, tabulated on the reuse counts drawn below.
Ln1pE4(r, mu) ==
    IF mu = 10
    THEN CASE r = 0 -> 0 [] r = 5 -> 4055 [] r = 80 -> 21972
           [] r = 250 -> 32581 [] r = 1000 -> 46151
    ELSE CASE r = 0 -> 0 [] r = 5 -> 953 [] r = 80 -> 9555
           [] r = 250 -> 17918 [] r = 1000 -> 30445
           [] r = 1 -> 198 [] r = 2 -> 392 [] r = 7 -> 1310 [] r = 9 -> 1655

\* math.sqrt(n) in 1/10000 for n in 1..60.
SqrtE4(n) ==
    <<10000, 14142, 17321, 20000, 22361, 24495, 26458, 28284, 30000, 31623,
      33166, 34641, 36056, 37417, 38730, 40000, 41231, 42426, 43589, 44721,
      45826, 46904, 47958, 48990, 50000, 50990, 51962, 52915, 53852, 54772,
      55678, 56569, 57446, 58310, 59161, 60000, 60828, 61644, 62450, 63246,
      64031, 64807, 65574, 66332, 67082, 67823, 68557, 69282, 70000, 70711,
      71414, 72111, 72801, 73485, 74162, 74833, 75498, 76158, 76811, 77460>>[n]

\* round(n / d) for n >= 0, ties to even, as Python's round().
RoundDiv(n, d) ==
    LET q == n \div d
        r == n % d
    IN  IF 2 * r < d THEN q
        ELSE IF 2 * r > d THEN q + 1
        ELSE IF q % 2 = 0 THEN q ELSE q + 1

\* a * b / 10000 for two 1/10000 fixed-point numbers, within 32-bit integers.
MulE4(a, b) == (a * (b \div 100) + (a * (b % 100)) \div 100) \div 100

\* bool(s) of a string or None.
StrTruthy(s) == s \notin {None, ""}

\* Mutant of _quality_score: the bonuses are added to the base instead of scaling it.
_quality_score_additive(it) ==
    LET has_license == StrTruthy(it.license)
        gate == IF it.is_public /\ has_license THEN 1 ELSE 0
        base == 5 * gate
        bonuses == (IF it.has_doi THEN 5 ELSE 0)
                   + (IF it.has_readme THEN 3 ELSE 0)
                   + (IF it.is_standard_format THEN 2 ELSE 0)
    IN  [fair_gate |-> gate = 1, bonuses |-> bonuses, Q |-> (base * 10 + 5 * bonuses) * 10]

\* Mutant of _quality_score: the gate opens when the item is public OR licensed.
_quality_score_gate_or(it) ==
    LET has_license == StrTruthy(it.license)
        gate == IF it.is_public \/ has_license THEN 1 ELSE 0
        base == 5 * gate
        bonuses == (IF it.has_doi THEN 5 ELSE 0)
                   + (IF it.has_readme THEN 3 ELSE 0)
                   + (IF it.is_standard_format THEN 2 ELSE 0)
    IN  [fair_gate |-> gate = 1, bonuses |-> bonuses, Q |-> base * (10 + bonuses) * 10]

\* _quality_score: bonuses in 1/10, Q in 1/100 (both exact, so round() keeps them).
_quality_score(it) ==
    LET is_public == it.is_public
        has_license == StrTruthy(it.license)
        gate == IF is_public /\ has_license THEN 1 ELSE 0
        base == 5 * gate
        b_doi == IF it.has_doi THEN 5 ELSE 0
        b_doc == IF it.has_readme THEN 3 ELSE 0
        b_fmt == IF it.is_standard_format THEN 2 ELSE 0
        bonuses == b_doi + b_doc + b_fmt
        q == base * (10 + bonuses) * 10
    IN  [fair_gate |-> gate = 1, bonuses |-> bonuses, Q |-> q]

\* _impact_score: 1 + ln(1 + max(r, 0) / mu), in 1/10000.
_impact_score(reuse_events, field_type) ==
    LET mu == FIELD_MEDIANS(field_type)
        r == Max(reuse_events, 0)
    IN  10000 + Ln1pE4(r, mu)

\* _collaboration_score: sqrt(max(n_a, 1) * max(n_i, 1)), in 1/10000.
_collaboration_score(n_authors, n_institutions) ==
    LET n_a == Max(n_authors, 1)
        n_i == Max(n_institutions, 1)
    IN  SqrtE4(n_a * n_i)

\* score_item: quality in 1/100; impact, collaboration and score rounded to 1/1000.
score_item(it) ==
    LET quality == _quality_score(it)
        impact == _impact_score(it.reuse_events, it.source_type)
        collab == _collaboration_score(it.n_authors, it.n_institutions)
        s == MulE4((quality.Q * impact) \div 100, collab)
    IN  [quality |-> quality.Q,
         fair_gate |-> quality.fair_gate,
         impact |-> RoundDiv(impact, 10),
         collaboration |-> RoundDiv(collab, 10),
         score |-> RoundDiv(s, 10)]

\* The normalized items the scorer is exercised on: every key of the normalized
\* schema is present, the license is a name, "" or None.
ReuseValues == {-3, 0, 5, 80, 250, 1000}
AuthorCounts == {0, 1, 2, 5, 12}
InstitutionCounts == {0, 1, 4, 5}
Items ==
    [is_public : BOOLEAN,
     license : {"", "CC BY 4.0", None},
     has_doi : BOOLEAN, has_readme : BOOLEAN, is_standard_format : BOOLEAN,
     reuse_events : ReuseValues,
     n_authors : AuthorCounts,
     n_institutions : InstitutionCounts,
     source_type : {"dataset", "code", "other"}]

IdleItem ==
    [is_public |-> FALSE, license |-> "", has_doi |-> FALSE, has_readme |-> FALSE,
     is_standard_format |-> FALSE, reuse_events |-> 0, n_authors |-> 1,
     n_institutions |-> 1, source_type |-> "other"]

ScoreInit == item \in Items /\ scored = <<>>
ScoreIdle == item = IdleItem /\ scored = <<>>

\* One call of score_item(item).
ScoreItem ==
    /\ scored = <<>>
    /\ scored' = <<score_item(item)>>
    /\ UNCHANGED <<item, notScore>>

(***************************************************************************)
(* Name matcher: backend/connectors/orcid.py                               *)
(***************************************************************************)

\* str.lower()
LowerChar(c) ==
    CASE c = "A" -> "a" [] c = "B" -> "b" [] c = "C" -> "c" [] c = "D" -> "d"
      [] c = "E" -> "e" [] c = "F" -> "f" [] c = "G" -> "g" [] c = "H" -> "h"
      [] c = "I" -> "i" [] c = "J" -> "j" [] c = "K" -> "k" [] c = "L" -> "l"
      [] c = "M" -> "m" [] c = "N" -> "n" [] c = "O" -> "o" [] c = "P" -> "p"
      [] c = "Q" -> "q" [] c = "R" -> "r" [] c = "S" -> "s" [] c = "T" -> "t"
      [] c = "U" -> "u" [] c = "V" -> "v" [] c = "W" -> "w" [] c = "X" -> "x"
      [] c = "Y" -> "y" [] c = "Z" -> "z"
      [] OTHER -> c
Lower(s) == [i \in 1..Len(s) |-> LowerChar(s[i])]

\* re.sub(r"[.\-,]", " ", s)
SubPunct(s) == [i \in 1..Len(s) |-> IF s[i] \in {".", "-", ","} THEN " " ELSE s[i]]

\* str.split(): the maximal runs of non-whitespace characters, in order.
RECURSIVE SplitFrom(_, _, _, _)
SplitFrom(s, i, cur, acc) ==
    IF i > Len(s)
    THEN IF cur = <<>> THEN acc ELSE Append(acc, cur)
    ELSE IF s[i] = " "
         THEN SplitFrom(s, i + 1, <<>>, IF cur = <<>> THEN acc ELSE Append(acc, cur))
         ELSE SplitFrom(s, i + 1, Append(cur, s[i]), acc)
Split(s) == SplitFrom(s, 1, <<>>, <<>>)

\* str.startswith
StartsWith(s, prefix) ==
    Len(prefix) <= Len(s) /\ SubSeq(s, 1, Len(prefix)) = prefix

\* _split_name: <<given-name tokens, surname>>.  With fewer than two tokens the
\* code returns the whole token list as the given names.
_split_name(name) ==
    LET parts == Split(SubPunct(Lower(name)))
    IN  IF Len(parts) < 2
        THEN <<parts, IF parts # <<>> THEN parts[1] ELSE <<>>>>
        ELSE <<SubSeq(parts, 1, Len(parts) - 1), parts[Len(parts)]>>

\* _initial_match: the nested loops, from token ta = tokens_a[i], tb = tokens_b[j].
RECURSIVE InitialMatchFrom(_, _, _, _)
InitialMatchFrom(tokens_a, tokens_b, i, j) ==
    IF i > Len(tokens_a) THEN FALSE
    ELSE IF j > Len(tokens_b) THEN InitialMatchFrom(tokens_a, tokens_b, i + 1, 1)
    ELSE LET ta == tokens_a[i]
             tb == tokens_b[j]
         IN  IF ta = tb THEN TRUE
             ELSE IF Len(ta) = 1 /\ StartsWith(tb, ta) THEN TRUE
             ELSE IF Len(tb) = 1 /\ StartsWith(ta, tb) THEN TRUE
             ELSE InitialMatchFrom(tokens_a, tokens_b, i, j + 1)

\* Mutant of _initial_match: without `if len(tb) == 1 and ta.startswith(tb)`.
_initial_match_one_way(tokens_a, tokens_b) ==
    \E i \in 1..Len(tokens_a), j \in 1..Len(tokens_b) :
        \/ tokens_a[i] = tokens_b[j]
        \/ Len(tokens_a[i]) = 1 /\ StartsWith(tokens_b[j], tokens_a[i])

_initial_match(tokens_a, tokens_b) == InitialMatchFrom(tokens_a, tokens_b, 1, 1)

\* Mutant of _name_matches: the surname comparison is dropped.
_name_matches_no_surname(a, b) ==
    LET given_a == _split_name(a)[1]
        given_b == _split_name(b)[1]
    IN   IF given_a = <<>> \/ given_b = <<>> THEN TRUE
        ELSE _initial_match(given_a, given_b)

\* _name_matches(display_name, author_name)
_name_matches(a, b) ==
    LET split_a == _split_name(a)
        split_b == _split_name(b)
        given_a == split_a[1]
        surname_a == split_a[2]
        given_b == split_b[1]
        surname_b == split_b[2]
    IN  IF surname_a # surname_b THEN FALSE
        ELSE IF given_a = <<>> \/ given_b = <<>> THEN TRUE
        ELSE _initial_match(given_a, given_b)

\* The names the matcher is exercised on: up to MaxTokens tokens written with one
\* of the separators, so "a B", "Ab. B", "B,a", "a-Ab-B", the empty name, ...
MaxTokens == 3
NameTokens == {<<"a">>, <<"A", "b">>, <<"B">>}
NameSeparators == {<<" ">>, <<".", " ">>, <<",">>, <<"-">>}

RECURSIVE Join(_, _)
Join(tokens, sep) ==
    IF tokens = <<>> THEN <<>>
    ELSE IF Len(tokens) = 1 THEN tokens[1]
    ELSE tokens[1] \o sep \o Join(Tail(tokens), sep)

TokenLists == UNION {[1..n -> NameTokens] : n \in 0..MaxTokens}
Names == {Join(ts, sep) : ts \in TokenLists, sep \in NameSeparators}

NameInit == display_name \in Names /\ author_name \in Names /\ matched = <<>>
NameIdle == display_name = <<>> /\ author_name = <<>> /\ matched = <<>>

\* One call of _name_matches(display_name, author_name).
NameMatch ==
    /\ matched = <<>>
    /\ matched' = <<_name_matches(display_name, author_name)>>
    /\ UNCHANGED <<display_name, author_name, notName>>

(***************************************************************************)
(* Identity resolver: backend/connectors/orcid.py                          *)
(***************************************************************************)

\* _MAX_DOIS = 8
_MAX_DOIS == 8

\* What one HTTP request can end in: a status, or an exception (timeout,
\* connection error, undecodable body).
Ok == "200"
RateLimited == "429"
Outcomes == {Ok, "404", RateLimited, "exc"}

\* The S2 author ids; NoId is the authorId of an author without a profile (null).
AuthorIds == {"s1", "s2", "s3", "s4"}
NoId == ""

\* The authors S2 knows, for the display name "Ab B": three profiles whose names
\* match it, one that does not, and an author entry without an id.
NameFull == <<"A", "b", " ", "B">>
AuthFull == [authorId |-> "s1", name |-> NameFull]
AuthInitial == [authorId |-> "s2", name |-> <<"a", ".", " ", "B">>]
AuthMiddle == [authorId |-> "s3", name |-> <<"A", "b", " ", "a", "-", "B">>]
AuthOther == [authorId |-> "s4", name |-> <<"B", " ", "B">>]
AuthNoId == [authorId |-> NoId, name |-> NameFull]

AuthorLists ==
    {<<AuthOther>>, <<AuthInitial, AuthOther>>, <<AuthNoId, AuthMiddle>>,
     <<AuthFull, AuthInitial>>}
SearchLists == {<<>>, <<AuthOther, AuthMiddle>>, <<AuthFull, AuthInitial>>}
ResolveNames == {NameFull}
\* The researcher's ORCID iD; "" and the empty display name are the invalid inputs.
OrcidId == "0000-0002-1825-0097"

\* Bounds: DOIs on the ORCID profile, and the largest paperCount of the profiles
\* s1 and s2 (s3 has one paper, the non-matching s4 more than any of them).
MaxDois == 2
MaxPapers == 2

\* Sequence helpers
Take(s, n) == SubSeq(s, 1, IF n < Len(s) THEN n ELSE Len(s))
Range(s) == {s[i] : i \in 1..Len(s)}
Perms(S) == {p \in [1..Cardinality(S) -> S] : Range(p) = S}

\* A call that either returns a value or raises.
Return(v) == [raises |-> FALSE, value |-> v]
Raise == [raises |-> TRUE, value |-> <<>>]

\* Mutant of _get_dois_from_orcid: without the _MAX_DOIS cap.
_get_dois_from_orcid_uncapped(resp, works) ==
    IF resp # Ok THEN Raise
    ELSE Return([j \in 1..Len(works) |-> j])

\* _get_dois_from_orcid: raise_for_status() and network errors raise; otherwise
\* the first DOI of each work group, stopping once _MAX_DOIS are collected.
_get_dois_from_orcid(resp, works) ==
    IF resp # Ok THEN Raise
    ELSE Return([j \in 1..Len(Take(works, _MAX_DOIS)) |-> j])

\* Mutant of _s2_authors_for_doi: no try/except, a request exception propagates.
_s2_authors_for_doi_uncaught(first, second, authors) ==
    LET resp == IF first = RateLimited THEN second ELSE first
    IN  IF first = "exc" \/ resp = "exc" THEN Raise
        ELSE IF resp # Ok THEN Return(<<>>)
        ELSE Return(authors)

\* _s2_authors_for_doi: `first` is the answer to the request, `second` the answer
\* to the retry issued after a 429.
_s2_authors_for_doi(first, second, authors) ==
    LET resp == IF first = RateLimited THEN second ELSE first
    IN  IF first = "exc" \/ resp = "exc" THEN Return(<<>>)
        ELSE IF resp # Ok THEN Return(<<>>)
        ELSE Return(authors)

\* Mutant of CountVotes: the name test is dropped, every author with an id votes.
RECURSIVE CountVotes_any_name(_, _, _)
CountVotes_any_name(counts, authors, name) ==
    IF authors = <<>> THEN counts
    ELSE LET author_id == Head(authors).authorId
         IN  IF author_id = NoId THEN CountVotes_any_name(counts, Tail(authors), name)
             ELSE CountVotes_any_name([counts EXCEPT ![author_id] = @ + 1], Tail(authors), name)

\* resolve_s2_id, the loop over one DOI's authors: id_counts[author_id] += 1 for
\* each author that has an id and whose name matches.
RECURSIVE CountVotes(_, _, _)
CountVotes(counts, authors, name) ==
    IF authors = <<>> THEN counts
    ELSE LET author == Head(authors)
             author_id == author.authorId
         IN  IF author_id = NoId THEN CountVotes(counts, Tail(authors), name)
             ELSE IF _name_matches(name, author.name)
                  THEN CountVotes([counts EXCEPT ![author_id] = @ + 1], Tail(authors), name)
                  ELSE CountVotes(counts, Tail(authors), name)

\* Counter.keys() / `not id_counts`
CounterKeys(counts) == {id \in DOMAIN counts : counts[id] > 0}

\* _s2_name_search_ids: the ids of the hits whose name matches; [] on any failure.
_s2_name_search_ids(resp, hits, name) ==
    IF resp # Ok THEN {}
    ELSE {hits[i].authorId : i \in {j \in 1..Len(hits) : _name_matches(name, hits[j].name)}}

\* Mutant of PickBetter: the comparison is reversed.
PickBetter_reversed(count, best) == count < best

\* _pick_largest_profile: `if count > best_count`
PickBetter(count, best) == count > best

NoCounts == [id \in AuthorIds |-> 0]

\* The profiles: up to MaxDois works with any author lists, and one profile with
\* more works than _MAX_DOIS, none of them by the researcher.
ResolveWorlds ==
    \/ /\ \/ /\ s2Authors \in UNION {[1..n -> AuthorLists] : n \in 0..MaxDois}
             /\ s2Search \in SearchLists
             /\ \E f \in [{"s1", "s2"} -> 0..MaxPapers] :
                   paperCount = [id \in AuthorIds |->
                                    IF id = "s4" THEN MaxPapers + 1
                                    ELSE IF id = "s3" THEN 1 ELSE f[id]]
          \/ /\ s2Authors = [j \in 1..(_MAX_DOIS + 1) |-> <<AuthOther>>]
             /\ s2Search = <<>>
             /\ paperCount = [id \in AuthorIds |-> 1]
       /\ resolve_orcid = OrcidId
       /\ resolve_name \in ResolveNames
    \* The calls with an empty identifier or an empty display name, on a profile
    \* of one work.
    \/ /\ s2Authors = <<(<<AuthFull, AuthInitial>>)>>
       /\ s2Search = <<AuthFull, AuthInitial>>
       /\ paperCount = [id \in AuthorIds |-> 1]
       /\ \E o \in {"", OrcidId}, n \in {<<>>} \cup ResolveNames :
             (o = "" \/ n = <<>>) /\ resolve_orcid = o /\ resolve_name = n

ResolveLocalsInit ==
    /\ orcid_requests = 0
    /\ dois = <<>> /\ doi_i = 1 /\ id_counts = NoCounts /\ doiOk = <<>>
    /\ doi_seen = <<>> /\ doi_log = <<>>
    /\ searchOk = "none" /\ candidates = <<>> /\ cand_k = 1
    /\ best_id = None /\ best_count = 0 /\ pickOk = {}
    /\ result = None /\ raised = FALSE

ResolveInit == ResolveWorlds /\ pc = "start" /\ ResolveLocalsInit
ResolveIdle ==
    /\ s2Authors = <<>> /\ s2Search = <<>> /\ paperCount = NoCounts
    /\ resolve_orcid = "" /\ resolve_name = <<>> /\ pc = "idle" /\ ResolveLocalsInit

\* The call returns v.
ResolveReturn(v) == pc' = "done" /\ result' = v /\ raised' = FALSE
\* The call ends by an exception.
ResolveRaise == pc' = "done" /\ result' = None /\ raised' = TRUE

\* resolve_s2_id up to its first DOI lookup: await _get_dois_from_orcid under
\* try/except, return None on failure or when there is no DOI.
GetDois ==
    /\ pc = "start"
    /\ orcid_requests' = orcid_requests + 1
    /\ \E resp \in Outcomes :
          LET r == _get_dois_from_orcid(resp, s2Authors)
          IN  IF r.raises \/ r.value = <<>>
              THEN ResolveReturn(None) /\ UNCHANGED dois
              ELSE pc' = "lookup" /\ dois' = r.value /\ UNCHANGED <<result, raised>>
    /\ UNCHANGED <<worldVars, doi_seen, doi_log, doi_i, id_counts, doiOk, searchOk, candidates, cand_k,
                   best_id, best_count, pickOk, notResolve>>

\* What _s2_authors_for_doi does on the wire for the j-th DOI: the request and
\* its answer (an exception included), and after a 429 the sleep, the second
\* request and its answer.
LookupEvents(j, first) ==
    <<[kind |-> "send", doi |-> j], [kind |-> "recv", doi |-> j]>>
    \o (IF first = RateLimited
        THEN <<[kind |-> "sleep", doi |-> j], [kind |-> "send", doi |-> j],
               [kind |-> "recv", doi |-> j]>>
        ELSE <<>>)

\* One iteration of `for doi in dois`: await _s2_authors_for_doi, count the votes.
\* After the last DOI the code goes on to `if not id_counts: return None`.
LookupDoi ==
    /\ pc = "lookup"
    /\ \E first \in Outcomes, second \in Outcomes :
          LET r == _s2_authors_for_doi(first, second, s2Authors[dois[doi_i]])
              counts == CountVotes(id_counts, r.value, resolve_name)
              ok == (IF first = RateLimited THEN second ELSE first) = Ok
          IN  IF r.raises
              THEN ResolveRaise /\ UNCHANGED <<id_counts, doiOk, doi_seen, doi_log, doi_i>>
              ELSE /\ id_counts' = counts
                   /\ doiOk' = Append(doiOk, ok)
                   /\ doi_seen' = Append(doi_seen, dois[doi_i])
                   /\ doi_log' = LookupEvents(dois[doi_i], first)
                   /\ doi_i' = doi_i + 1
                   /\ IF doi_i < Len(dois)
                      THEN UNCHANGED <<pc, result, raised>>
                      ELSE IF CounterKeys(counts) = {}
                           THEN ResolveReturn(None)
                           ELSE pc' = "search" /\ UNCHANGED <<result, raised>>
    /\ UNCHANGED <<worldVars, orcid_requests, dois, searchOk, candidates, cand_k, best_id,
                   best_count, pickOk, notResolve>>

\* await _s2_name_search_ids; candidates = keys of id_counts united with the
\* hits; list(candidates) in the set's iteration order; _pick_largest_profile
\* starts with best_id = author_ids[0], best_count = 0.
NameSearch ==
    /\ pc = "search"
    /\ \E resp \in Outcomes :
          LET extra == _s2_name_search_ids(resp, s2Search, resolve_name)
          IN  /\ searchOk' = IF resp = Ok THEN "ok" ELSE "failed"
              /\ candidates' \in Perms(CounterKeys(id_counts) \cup extra)
    /\ best_id' = candidates'[1]
    /\ best_count' = 0
    /\ cand_k' = 1
    /\ pc' = "pick"
    /\ doi_log' = <<>>
    /\ UNCHANGED <<worldVars, orcid_requests, doi_seen, dois, doi_i, id_counts, doiOk, pickOk,
                   result, raised, notResolve>>

\* One iteration of `for aid in author_ids`: the paperCount request under
\* try/except.  After the last candidate the call returns best_id.
PickLookup ==
    /\ pc = "pick"
    /\ \E resp \in Outcomes :
          LET aid == candidates[cand_k]
              count == paperCount[aid]
              better == resp = Ok /\ PickBetter(count, best_count)
              best == IF better THEN aid ELSE best_id
          IN  /\ best_id' = best
              /\ best_count' = IF better THEN count ELSE best_count
              /\ pickOk' = IF resp = Ok THEN pickOk \cup {aid} ELSE pickOk
              /\ cand_k' = cand_k + 1
              /\ IF cand_k < Len(candidates)
                 THEN UNCHANGED <<pc, result, raised>>
                 ELSE ResolveReturn(best)
    /\ UNCHANGED <<worldVars, orcid_requests, doi_seen, doi_log, dois, doi_i, id_counts, doiOk,
                   searchOk, candidates, notResolve>>

(***************************************************************************)
(* Affiliation merger: backend/connectors/affiliations.py                  *)
(***************************************************************************)

\* The state holds institution names, titles and author names as strings; the
\* code's character-level operations work on their characters.
CharsOf(str) ==
    CASE str = "Université de Paris" ->
        <<"U", "n", "i", "v", "e", "r", "s", "i", "t", "é", " ", "d", "e", " ", "P", "a", "r", "i", "s">>
    [] str = "University of Paris" ->
        <<"U", "n", "i", "v", "e", "r", "s", "i", "t", "y", " ", "o", "f", " ", "P", "a", "r", "i", "s">>
    [] str = "University of Pisa" ->
        <<"U", "n", "i", "v", "e", "r", "s", "i", "t", "y", " ", "o", "f", " ", "P", "i", "s", "a">>
    [] str = "University of Porto" ->
        <<"U", "n", "i", "v", "e", "r", "s", "i", "t", "y", " ", "o", "f", " ", "P", "o", "r", "t", "o">>
    [] str = "University of Toronto" ->
        <<"U", "n", "i", "v", "e", "r", "s", "i", "t", "y", " ", "o", "f", " ", "T", "o", "r", "o", "n", "t", "o">>
    [] str = "MIT" ->
        <<"M", "I", "T">>
    [] str = " mit" ->
        <<" ", "m", "i", "t">>
    [] str = "INRIA" ->
        <<"I", "N", "R", "I", "A">>
    [] str = "INRAE" ->
        <<"I", "N", "R", "A", "E">>
    [] str = "" ->
        <<>>
    [] str = "Table S1 from Paper X" ->
        <<"T", "a", "b", "l", "e", " ", "S", "1", " ", "f", "r", "o", "m", " ", "P", "a", "p", "e", "r", " ", "X">>
    [] str = "Figure 2 of Paper X" ->
        <<"F", "i", "g", "u", "r", "e", " ", "2", " ", "o", "f", " ", "P", "a", "p", "e", "r", " ", "X">>
    [] str = "Paper X" ->
        <<"P", "a", "p", "e", "r", " ", "X">>
    [] str = " paper x" ->
        <<" ", "p", "a", "p", "e", "r", " ", "x">>
    [] str = "Sleep Data" ->
        <<"S", "l", "e", "e", "p", " ", "D", "a", "t", "a">>
    [] str = "Figure of Merit" ->
        <<"F", "i", "g", "u", "r", "e", " ", "o", "f", " ", "M", "e", "r", "i", "t">>
    [] str = "Ann Lee" ->
        <<"A", "n", "n", " ", "L", "e", "e">>
    [] str = "ann lee" ->
        <<"a", "n", "n", " ", "l", "e", "e">>
    [] str = "Bo Li" ->
        <<"B", "o", " ", "L", "i">>
    [] str = "Sleep study" ->
        <<"S", "l", "e", "e", "p", " ", "s", "t", "u", "d", "y">>
    [] str = "Sleep  Study." ->
        <<"S", "l", "e", "e", "p", " ", " ", "S", "t", "u", "d", "y", ".">>
    [] str = "Sleep studies" ->
        <<"S", "l", "e", "e", "p", " ", "s", "t", "u", "d", "i", "e", "s">>
    [] str = "Sleep" ->
        <<"S", "l", "e", "e", "p">>

\* The institution names the providers return.
InstitutionNames ==
    {"Université de Paris", "University of Paris", "University of Pisa",
     "University of Porto", "University of Toronto", "MIT", " mit", "INRIA", "INRAE", ""}

\* "".join(c for c in unicodedata.normalize("NFKD", s) if not unicodedata.combining(c)):
\* the accented letter decomposes into its base letter and a combining mark.
RECURSIVE StripAccents(_)
StripAccents(s) ==
    LET Nfkd(c) == IF c = "é" THEN <<"e", "U+0301">> ELSE <<c>>
        Combining(c) == c = "U+0301"
    IN  IF s = <<>> THEN <<>>
        ELSE SelectSeq(Nfkd(Head(s)), LAMBDA c : ~Combining(c)) \o StripAccents(Tail(s))

\* str.strip()
Strip(s) ==
    LET blank == {i \in 1..Len(s) : s[i] = " "}
        first == CHOOSE i \in 1..(Len(s) + 1) :
                    i \notin blank /\ \A k \in 1..(i - 1) : k \in blank
        last == CHOOSE j \in 0..Len(s) :
                    j \notin blank /\ \A k \in (j + 1)..Len(s) : k \in blank
    IN  SubSeq(s, first, last)

\* _normalize_name: strip accents, lowercase, " ".join(split())
_normalize_name(name) == Join(Split(Lower(StripAccents(CharsOf(name)))), <<" ">>)

\* SequenceMatcher(None, a, b).get_matching_blocks(): the total size of the
\* blocks found by taking the longest match of a[alo..ahi] and b[blo..bhi]
\* (the earliest in a among the longest, then the earliest in b) and splitting
\* around it, left and right.
RECURSIVE MatchingSize(_, _, _, _, _, _)
MatchingSize(a, b, alo, ahi, blo, bhi) ==
    LET RECURSIVE RunLen(_, _)
        RunLen(i, j) ==
            IF i > ahi \/ j > bhi \/ a[i] # b[j] THEN 0 ELSE 1 + RunLen(i + 1, j + 1)
        blocks == {<<i, j, RunLen(i, j)>> : i \in alo..ahi, j \in blo..bhi}
        Better(x, y) ==
            \/ x[3] > y[3]
            \/ x[3] = y[3] /\ x[1] < y[1]
            \/ x[3] = y[3] /\ x[1] = y[1] /\ x[2] <= y[2]
        m == IF blocks = {} THEN <<alo, blo, 0>>
             ELSE CHOOSE x \in blocks : \A y \in blocks : Better(x, y)
    IN  IF m[3] = 0 THEN 0
        ELSE m[3]
             + MatchingSize(a, b, alo, m[1] - 1, blo, m[2] - 1)
             + MatchingSize(a, b, m[1] + m[3], ahi, m[2] + m[3], bhi)

\* SequenceMatcher(None, a, b).ratio() > 0.8, with ratio = 2 * M / (len(a) + len(b))
\* and 1.0 for two empty strings.
RatioAboveThreshold(a, b) ==
    LET total == Len(a) + Len(b)
    IN  IF total = 0 THEN TRUE
        ELSE 5 * MatchingSize(a, b, 1, Len(a), 1, Len(b)) > 2 * total

\* _normalize_name, the ORCID fetcher's org_key (strip accents, .lower().strip())
\* and the similarity test on the names above, computed once.
NormalizedName == [n \in InstitutionNames |-> _normalize_name(n)]
OrgKeyOf == [n \in InstitutionNames |-> Strip(Lower(StripAccents(CharsOf(n))))]
SimilarTo ==
    [n \in InstitutionNames |->
        [e \in InstitutionNames |-> RatioAboveThreshold(NormalizedName[n], NormalizedName[e])]]

_is_duplicate(name, existing) ==
    \E i \in 1..Len(existing) :
        \/ NormalizedName[name] = NormalizedName[existing[i].institution]
        \/ SimilarTo[name][existing[i].institution]

\* The three providers in the order asyncio.gather is given their tasks.
Providers == {"s2", "orcid", "openalex"}

\* _fetch_s2_affiliations on the response that is not retried: the JSON's
\* "affiliations" is null, a string or a list.
S2Affiliations(data) ==
    CASE data.kind = "null" -> <<>>
      [] data.kind = "str" -> IF data.str # "" THEN <<data.str>> ELSE <<>>
      [] data.kind = "list" -> data.list
_fetch_s2_affiliations(resp, data) ==
    IF resp = Ok THEN Return(S2Affiliations(data)) ELSE Return(<<>>)

\* _fetch_orcid_affiliations: the loop over the employment summaries.
RECURSIVE OrcidRecords(_, _)
OrcidRecords(summaries, seen_orgs) ==
    IF summaries = <<>> THEN <<>>
    ELSE LET summary == Head(summaries)
             org_key == OrgKeyOf[summary.name]
         IN  IF summary.name = "" \/ org_key \in seen_orgs
             THEN OrcidRecords(Tail(summaries), seen_orgs)
             ELSE <<[institution |-> summary.name, city |-> summary.city,
                     country |-> summary.country, current |-> ~summary.ended]>>
                  \o OrcidRecords(Tail(summaries), seen_orgs \cup {org_key})
_fetch_orcid_affiliations_uncaught(resp, data) ==
    IF resp = Ok THEN Return(OrcidRecords(data, {})) ELSE Raise
_fetch_orcid_affiliations(resp, data) ==
    IF resp = Ok THEN Return(OrcidRecords(data, {})) ELSE Return(<<>>)

\* _fetch_openalex_affiliations: last_known_institutions, then the historical
\* affiliations, with one seen_orgs set over both loops.
RECURSIVE OpenAlexRecords(_, _, _)
OpenAlexRecords(insts, seen_orgs, last_known) ==
    IF insts = <<>> THEN <<>>
    ELSE LET inst == Head(insts)
             norm_key == NormalizedName[inst.display_name]
         IN  IF inst.display_name = "" \/ norm_key \in seen_orgs
             THEN OpenAlexRecords(Tail(insts), seen_orgs, last_known)
             ELSE <<[institution |-> inst.display_name, city |-> "",
                     country |-> inst.country_code,
                     current |-> last_known \/ inst.recent]>>
                  \o OpenAlexRecords(Tail(insts), seen_orgs \cup {norm_key}, last_known)
OpenAlexAffiliations(data) ==
    LET current == OpenAlexRecords(data.last_known_institutions, {}, TRUE)
        seen == {NormalizedName[current[i].institution] : i \in 1..Len(current)}
    IN  current \o OpenAlexRecords(data.affiliations, seen, FALSE)
_fetch_openalex_affiliations(resp, data) ==
    IF resp = Ok THEN Return(OpenAlexAffiliations(data)) ELSE Return(<<>>)

\* fetch_affiliations after the gather: one loop per provider.
RECURSIVE AppendNew(_, _, _)
AppendNew(results, affs, source) ==
    IF affs = <<>> THEN results
    ELSE LET aff == Head(affs)
         IN  AppendNew(IF _is_duplicate(aff.institution, results) THEN results
                       ELSE Append(results,
                                   [institution |-> aff.institution, city |-> aff.city,
                                    country |-> aff.country, current |-> aff.current,
                                    source |-> source]),
                       Tail(affs), source)
S2Records(names) ==
    [i \in 1..Len(names) |->
        [institution |-> names[i], city |-> "", country |-> "", current |-> TRUE]]
MergeAffiliations_s2_first(s2_affs, orcid_affs, openalex_affs) ==
    AppendNew(AppendNew(AppendNew(<<>>, S2Records(s2_affs), "semantic_scholar"),
                        orcid_affs, "orcid"), openalex_affs, "openalex")
MergeAffiliations(s2_affs, orcid_affs, openalex_affs) ==
    AppendNew(AppendNew(AppendNew(<<>>, orcid_affs, "orcid"), openalex_affs, "openalex"),
              S2Records(s2_affs), "semantic_scholar")

\* ORCID employment summaries: organization name and address, and whether the
\* summary has an end date with a year.
OrcidPayloads ==
    {<<>>,
     <<[name |-> "Université de Paris", city |-> "Paris", country |-> "FR", ended |-> FALSE],
       [name |-> "MIT", city |-> "Cambridge", country |-> "US", ended |-> TRUE]>>,
     <<[name |-> "MIT", city |-> "Cambridge", country |-> "US", ended |-> TRUE],
       [name |-> "", city |-> "", country |-> "", ended |-> FALSE],
       [name |-> " mit", city |-> "", country |-> "US", ended |-> FALSE]>>,
     <<[name |-> "INRIA", city |-> "Rennes", country |-> "FR", ended |-> TRUE],
       [name |-> "INRAE", city |-> "Paris", country |-> "FR", ended |-> FALSE]>>,
     <<[name |-> "University of Paris", city |-> "Paris", country |-> "FR", ended |-> FALSE]>>,
     <<[name |-> "University of Porto", city |-> "Porto", country |-> "PT", ended |-> FALSE]>>,
     <<[name |-> "University of Toronto", city |-> "Toronto", country |-> "CA",
        ended |-> FALSE]>>}

\* OpenAlex institutions: display_name, country_code, and for a historical
\* affiliation whether its years hold the current or the previous year.
OpenAlexPayloads ==
    {[last_known_institutions |-> <<>>, affiliations |-> <<>>],
     [last_known_institutions |->
          <<[display_name |-> "University of Paris", country_code |-> "FR", recent |-> TRUE]>>,
      affiliations |->
          <<[display_name |-> "University of Paris", country_code |-> "FR", recent |-> TRUE],
            [display_name |-> "MIT", country_code |-> "US", recent |-> FALSE]>>],
     [last_known_institutions |->
          <<[display_name |-> "INRAE", country_code |-> "FR", recent |-> TRUE]>>,
      affiliations |->
          <<[display_name |-> " mit", country_code |-> "US", recent |-> FALSE],
            [display_name |-> "University of Pisa", country_code |-> "IT", recent |-> TRUE]>>],
     [last_known_institutions |->
          <<[display_name |-> "University of Toronto", country_code |-> "CA", recent |-> TRUE]>>,
      affiliations |->
          <<[display_name |-> "", country_code |-> "", recent |-> FALSE],
            [display_name |-> "University of Porto", country_code |-> "PT",
             recent |-> FALSE]>>]}

\* Semantic Scholar "affiliations": null, a string, or a list of strings.
S2Payloads ==
    {[kind |-> "null", str |-> "", list |-> <<>>],
     [kind |-> "str", str |-> "MIT", list |-> <<>>],
     [kind |-> "str", str |-> "", list |-> <<>>],
     [kind |-> "list", str |-> "", list |-> <<"University of Pisa", "">>],
     [kind |-> "list", str |-> "", list |-> <<" mit", "INRIA">>],
     [kind |-> "list", str |-> "", list |-> <<"University of Toronto", "University of Porto">>]}

\* cache_store[p] is the cache entry under the key of provider p's fetcher for
\* the identifier of the call.
AffLocalsInit ==
    /\ cache_store = [p \in Providers |-> <<>>]
    /\ aff_pc = "idle"
    /\ task_pc = [p \in Providers |-> "new"]
    /\ task_value = [p \in Providers |-> <<>>]
    /\ task_ok = [p \in Providers |-> FALSE]
    /\ task_requests = [p \in Providers |-> 0]
    /\ completed = <<>>
    /\ aff_results = <<>>
    /\ aff_raised = FALSE
AffInit ==
    /\ semantic_scholar_id \in {"", "1741101"}
    /\ orcid \in {"", "0000-0002-1825-0097"}
    /\ s2_data \in S2Payloads
    /\ orcid_data \in OrcidPayloads
    /\ openalex_data \in OpenAlexPayloads
    /\ AffLocalsInit
AffIdle ==
    /\ semantic_scholar_id = ""
    /\ orcid = ""
    /\ s2_data = [kind |-> "null", str |-> "", list |-> <<>>]
    /\ orcid_data = <<>>
    /\ openalex_data = [last_known_institutions |-> <<>>, affiliations |-> <<>>]
    /\ AffLocalsInit

\* fetch_affiliations is called: the three coroutines are handed to gather.
CallFetchAffiliations ==
    /\ aff_pc \in {"idle", "done"}
    /\ aff_pc' = "gather"
    /\ task_pc' = [p \in Providers |-> "new"]
    /\ task_value' = [p \in Providers |-> <<>>]
    /\ task_ok' = [p \in Providers |-> FALSE]
    /\ task_requests' = [p \in Providers |-> 0]
    /\ completed' = <<>>
    /\ aff_results' = <<>>
    /\ aff_raised' = FALSE
    /\ UNCHANGED <<affWorldVars, cache_store, notAff>>

\* A task ends with the outcome r of its fetcher; an exception goes through
\* gather to the caller of fetch_affiliations.
TaskEnds(p, r, ok) ==
    /\ task_pc' = [task_pc EXCEPT ![p] = "done"]
    /\ task_value' = [task_value EXCEPT ![p] = r.value]
    /\ task_ok' = [task_ok EXCEPT ![p] = ok]
    /\ completed' = Append(completed, p)
    /\ aff_raised' = r.raises
    /\ aff_pc' = IF r.raises THEN "done" ELSE aff_pc
    /\ UNCHANGED <<affWorldVars, task_requests, aff_results, notAff>>

\* The fetcher of provider p on a response it does not retry; the list made of
\* a 200 answer is stored in the cache.
Responded(p, resp) ==
    LET r == CASE p = "s2" -> _fetch_s2_affiliations(resp, s2_data)
               [] p = "orcid" -> _fetch_orcid_affiliations(resp, orcid_data)
               [] p = "openalex" -> _fetch_openalex_affiliations(resp, openalex_data)
    IN  /\ TaskEnds(p, r, resp = Ok)
        /\ cache_store' = IF resp = Ok THEN [cache_store EXCEPT ![p] = <<r.value>>]
                          ELSE cache_store

\* A fetcher runs to its first await: no identifier, a cache hit, or the request.
TaskStart ==
    \E p \in Providers :
        /\ aff_pc = "gather"
        /\ task_pc[p] = "new"
        /\ IF (IF p = "s2" THEN semantic_scholar_id ELSE orcid) = ""
           THEN TaskEnds(p, Return(<<>>), FALSE) /\ UNCHANGED cache_store
           ELSE IF cache_store[p] # <<>>
           THEN TaskEnds(p, Return(cache_store[p][1]), TRUE) /\ UNCHANGED cache_store
           ELSE /\ task_pc' = [task_pc EXCEPT ![p] = "request"]
                /\ task_requests' = [task_requests EXCEPT ![p] = 1]
                /\ UNCHANGED <<affWorldVars, cache_store, aff_pc, task_value, task_ok,
                               completed, aff_results, aff_raised, notAff>>

\* The response to a fetcher's request arrives; S2 sleeps and retries after a 429.
TaskRespond ==
    \E p \in Providers, resp \in Outcomes :
        /\ aff_pc = "gather"
        /\ task_pc[p] = "request"
        /\ IF p = "s2" /\ resp = RateLimited
           THEN /\ task_pc' = [task_pc EXCEPT ![p] = "retry"]
                /\ task_requests' = [task_requests EXCEPT ![p] = 2]
                /\ UNCHANGED <<affWorldVars, cache_store, aff_pc, task_value, task_ok,
                               completed, aff_results, aff_raised, notAff>>
           ELSE Responded(p, resp)

\* The response to S2's second request arrives.
TaskRetry ==
    \E resp \in Outcomes :
        /\ aff_pc = "gather"
        /\ task_pc["s2"] = "retry"
        /\ Responded("s2", resp)

\* gather returns the three lists by position and fetch_affiliations merges them.
Merge ==
    /\ aff_pc = "gather"
    /\ \A p \in Providers : task_pc[p] = "done"
    /\ aff_results' = MergeAffiliations(task_value["s2"], task_value["orcid"],
                                        task_value["openalex"])
    /\ aff_pc' = "done"
    /\ UNCHANGED <<affWorldVars, cache_store, task_pc, task_value, task_ok, task_requests,
                   completed, aff_raised, notAff>>

\* A cache entry older than its ttl is evicted by the next get: the entry is gone.
CacheExpire ==
    \E p \in Providers :
        /\ cache_store[p] # <<>>
        /\ cache_store' = [cache_store EXCEPT ![p] = <<>>]
        /\ UNCHANGED <<affWorldVars, aff_pc, task_pc, task_value, task_ok, task_requests,
                       completed, aff_results, aff_raised, notAff>>

(***************************************************************************)
(* Figshare deduplicator: backend/qic_index.py                             *)
(***************************************************************************)

\* defined_type_name as Figshare spells it ("" when missing or null), lowercased.
LowerType(t) == IF t = "Fileset" THEN "fileset" ELSE t
_ARTIFACT_TYPES == {"dataset", "software", "code", "fileset"}
TitleKeyLen == 80

\* sorted() of a list of lowercased strings: code-point order.
RECURSIVE Sorted(_)
Sorted(strs) ==
    LET Alphabet ==
            <<" ", "0", "1", "2", "3", "4", "5", "6", "7", "8", "9", ":">> \o
            <<"a", "b", "c", "d", "e", "f", "g", "h", "i", "j", "k", "l", "m">> \o
            <<"n", "o", "p", "q", "r", "s", "t", "u", "v", "w", "x", "y", "z", "|">>
        CodeOf(c) == CHOOSE i \in 1..Len(Alphabet) : Alphabet[i] = c
        RECURSIVE StrLess(_, _)
        StrLess(a, b) ==
            IF b = <<>> THEN FALSE
            ELSE IF a = <<>> THEN TRUE
            ELSE IF Head(a) = Head(b) THEN StrLess(Tail(a), Tail(b))
            ELSE CodeOf(Head(a)) < CodeOf(Head(b))
        RECURSIVE Insert(_, _)
        Insert(x, sorted) ==
            IF sorted = <<>> THEN <<x>>
            ELSE IF StrLess(x, Head(sorted)) THEN <<x>> \o sorted
            ELSE <<Head(sorted)>> \o Insert(x, Tail(sorted))
    IN  IF strs = <<>> THEN <<>>
        ELSE Insert(strs[Len(strs)], Sorted(SubSeq(strs, 1, Len(strs) - 1)))

\* _PARENT_RE matched from the start of the title with re.IGNORECASE: the
\* places where group 1 can start with a character left for it.  A set of
\* positions holds the places where the pattern read so far can end.
\*   (?:FIGURE\s*\d+ | Figure\s+S\d+ | Additional\s+file\s+\d+ |
\*      Supplementary\s+(?:file|data|table|figure)\s*\d* | Table\s+S?\d+)
\*   \s*(?:from|of)\s+(.+)
ParentStarts(s) ==
    LET Word(P, w) ==
            {p + Len(w) : p \in {q \in P : q + Len(w) - 1 <= Len(s)
                                           /\ Lower(SubSeq(s, q, q + Len(w) - 1)) = w}}
        Many(P, class, least) ==
            {q \in 1..(Len(s) + 1) :
                \E p \in P : p + least <= q /\ \A k \in p..(q - 1) : s[k] \in class}
        space == {" "}
        digit == {"0", "1", "2", "3", "4", "5", "6", "7", "8", "9"}
        figure == Word({1}, <<"f", "i", "g", "u", "r", "e">>)
        additional == Word({1}, <<"a", "d", "d", "i", "t", "i", "o", "n", "a", "l">>)
        supplementary ==
            Many(Word({1}, <<"s", "u", "p", "p", "l", "e", "m", "e", "n", "t", "a", "r", "y">>),
                 space, 1)
        table == Many(Word({1}, <<"t", "a", "b", "l", "e">>), space, 1)
        prefix ==
            Many(Many(figure, space, 0), digit, 1)
            \cup Many(Word(Many(figure, space, 1), <<"s">>), digit, 1)
            \cup Many(Many(Word(Many(additional, space, 1), <<"f", "i", "l", "e">>), space, 1),
                      digit, 1)
            \cup Many(Many(Word(supplementary, <<"f", "i", "l", "e">>)
                           \cup Word(supplementary, <<"d", "a", "t", "a">>)
                           \cup Word(supplementary, <<"t", "a", "b", "l", "e">>)
                           \cup Word(supplementary, <<"f", "i", "g", "u", "r", "e">>),
                           space, 0),
                      digit, 0)
            \cup Many(table \cup Word(table, <<"s">>), digit, 1)
        after == Many(prefix, space, 0)
        link == Word(after, <<"f", "r", "o", "m">>) \cup Word(after, <<"o", "f">>)
    IN  {g \in Many(link, space, 1) : g <= Len(s)}

\* m = _PARENT_RE.match(title), then m.group(1).strip()[:80].lower():
\* <<>> when there is no match, else <<the parent key>>.  The greedy \s+ leaves
\* group 1 the latest start.
ParentKey(s) ==
    LET starts == ParentStarts(s)
    IN  IF starts = {} THEN <<>>
        ELSE LET g == CHOOSE x \in starts : \A y \in starts : y <= x
             IN  <<Lower(Take(Strip(SubSeq(s, g, Len(s))), TitleKeyLen))>>

\* The author fingerprint of a component: "authors:" and the sorted lowercased
\* names joined by "|", or the title when the article lists no authors.
AuthorKey(art) ==
    <<"a", "u", "t", "h", "o", "r", "s", ":">> \o
        (IF art.authors # <<>>
         THEN Join(Sorted([i \in 1..Len(art.authors) |-> Lower(CharsOf(art.authors[i]))]),
                   <<"|">>)
         ELSE Lower(Take(CharsOf(art.title), TitleKeyLen)))

\* A downloads or views count that is missing or null in the article.
NoCount == -1

\* Figshare articles: id, declared type, title, author names, downloads, views,
\* license name.
Articles ==
    {[id |-> 1, defined_type_name |-> "dataset", title |-> "Table S1 from Paper X",
      authors |-> <<>>, downloads |-> 5, views |-> 0,
      license |-> "CC BY 4.0"],
     [id |-> 2, defined_type_name |-> "figure", title |-> "Figure 2 of Paper X",
      authors |-> <<"Ann Lee">>, downloads |-> 3, views |-> 4,
      license |-> "CC BY 4.0"],
     [id |-> 3, defined_type_name |-> "dataset", title |-> "Paper X",
      authors |-> <<"Ann Lee">>, downloads |-> 9, views |-> 0,
      license |-> "CC BY 4.0"],
     [id |-> 4, defined_type_name |-> "Fileset", title |-> " paper x",
      authors |-> <<>>, downloads |-> NoCount, views |-> 9,
      license |-> ""],
     [id |-> 5, defined_type_name |-> "figure", title |-> "Sleep Data",
      authors |-> <<"Bo Li", "Ann Lee">>, downloads |-> 2, views |-> 0,
      license |-> "CC BY 4.0"],
     [id |-> 6, defined_type_name |-> "poster", title |-> "Figure of Merit",
      authors |-> <<"ann lee", "Bo Li">>, downloads |-> 0, views |-> 1,
      license |-> ""],
     [id |-> 7, defined_type_name |-> "", title |-> "Sleep Data",
      authors |-> <<>>, downloads |-> 0, views |-> 0,
      license |-> "CC BY 4.0"],
     [id |-> 8, defined_type_name |-> "journal contribution", title |-> "Paper X",
      authors |-> <<"Bo Li">>, downloads |-> 1, views |-> 1,
      license |-> "CC BY 4.0"],
     [id |-> 9, defined_type_name |-> "figure", title |-> "Sleep Data",
      authors |-> <<>>, downloads |-> 7, views |-> 0,
      license |-> ""]}
MaxArticles == 3
ArticleLists ==
    {l \in UNION {[1..n -> Articles] : n \in 0..MaxArticles} :
        \A i \in 1..Len(l), j \in 1..Len(l) : i # j => l[i].id # l[j].id}

\* Phase 1 on each article: <<"component", group key>> or <<"standalone">>.
Classify ==
    [art \in Articles |->
        LET dtype == LowerType(art.defined_type_name)
            m == ParentKey(CharsOf(art.title))
        IN  IF m # <<>> THEN <<"component", m[1]>>
            ELSE IF dtype # "" /\ dtype \notin _ARTIFACT_TYPES
                    /\ dtype \in {"figure", "poster", "presentation", "media"}
            THEN <<"component", AuthorKey(art)>>
            ELSE <<"standalone">>]
\* title[:80].lower().strip() of each article.
TitleKey == [art \in Articles |-> Strip(Lower(Take(CharsOf(art.title), TitleKeyLen)))]

\* groups.setdefault(key, []).append(art), the dict kept in insertion order.
SetDefaultAppend(acc, key, art) ==
    IF \E i \in 1..Len(acc) : acc[i].key = key
    THEN [i \in 1..Len(acc) |->
            IF acc[i].key = key
            THEN [key |-> key, items |-> Append(acc[i].items, art)]
            ELSE acc[i]]
    ELSE Append(acc, [key |-> key, items |-> <<art>>])
RECURSIVE GroupStandalone(_, _)
GroupStandalone(acc, arts) ==
    IF arts = <<>> THEN acc
    ELSE GroupStandalone(SetDefaultAppend(acc, TitleKey[Head(arts)], Head(arts)), Tail(arts))
RECURSIVE GroupComponents(_, _)
GroupComponents(acc, comps) ==
    IF comps = <<>> THEN acc
    ELSE GroupComponents(SetDefaultAppend(acc, Head(comps).key, Head(comps).art),
                         Tail(comps))

\* (a.get("downloads", 0) or 0) + (a.get("views", 0) or 0)
Reuse(art) ==
    (IF art.downloads = NoCount THEN 0 ELSE art.downloads)
    + (IF art.views = NoCount THEN 0 ELSE art.views)

Best_first(items) == items[1]
\* max(group_items, key = downloads + views): the first of the largest.
Best(items) ==
    items[CHOOSE i \in 1..Len(items) :
            /\ \A j \in 1..Len(items) : Reuse(items[j]) <= Reuse(items[i])
            /\ \A j \in 1..(i - 1) : Reuse(items[j]) < Reuse(items[i])]

DedupLocalsInit == standalone = <<>> /\ components = <<>> /\ groups = <<>> /\ deduped = <<>>
DedupInit ==
    articles \in ArticleLists /\ dedup_pc = "phase1" /\ dedup_prev = <<>> /\ DedupLocalsInit
DedupIdle == articles = <<>> /\ dedup_pc = "idle" /\ dedup_prev = <<>> /\ DedupLocalsInit

\* Phase 1: the loop that separates standalone artifacts from paper components.
SeparateComponents ==
    /\ dedup_pc = "phase1"
    /\ standalone' = SelectSeq(articles, LAMBDA a : Classify[a][1] = "standalone")
    /\ components' =
          LET parts == SelectSeq(articles, LAMBDA a : Classify[a][1] = "component")
          IN  [i \in 1..Len(parts) |-> [key |-> Classify[parts[i]][2], art |-> parts[i]]]
    /\ dedup_pc' = "phase2"
    /\ UNCHANGED <<articles, groups, deduped, dedup_prev, notDedup>>

\* Phase 2: the standalone items grouped by title key, then the components by group key.
GroupItems ==
    /\ dedup_pc = "phase2"
    /\ groups' = GroupComponents(GroupStandalone(<<>>, standalone), components)
    /\ dedup_pc' = "phase3"
    /\ UNCHANGED <<articles, standalone, components, deduped, dedup_prev, notDedup>>

PickBest_duplicated_groups ==
    /\ dedup_pc = "phase3"
    /\ deduped' = LET merged == SelectSeq(groups, LAMBDA g : Len(g.items) > 1)
                  IN  [i \in 1..Len(merged) |-> Best(merged[i].items)]
    /\ dedup_pc' = "done"
    /\ UNCHANGED <<articles, standalone, components, groups, dedup_prev, notDedup>>
\* Phase 3: the best item of each group; the function returns.
PickBest ==
    /\ dedup_pc = "phase3"
    /\ deduped' = [i \in 1..Len(groups) |-> Best(groups[i].items)]
    /\ dedup_pc' = "done"
    /\ UNCHANGED <<articles, standalone, components, groups, dedup_prev, notDedup>>

\* The list a call returned is passed to _deduplicate_figshare again.
DeduplicateAgain ==
    /\ dedup_pc = "done"
    /\ dedup_prev = <<>>
    /\ dedup_prev' = <<[articles |-> articles, deduped |-> deduped]>>
    /\ articles' = deduped
    /\ dedup_pc' = "phase1"
    /\ standalone' = <<>> /\ components' = <<>> /\ groups' = <<>> /\ deduped' = <<>>
    /\ UNCHANGED notDedup

(***************************************************************************)
(* Researcher score: backend/qic_index.py                                  *)
(***************************************************************************)

\* connectors.figshare.normalize_item: a Figshare article as a normalized
\* artifact record.  Figshare articles are public datasets with a DOI.
normalize_figshare_item(article) ==
    [is_public |-> TRUE, license |-> article.license,
     has_doi |-> TRUE, has_readme |-> FALSE, is_standard_format |-> TRUE,
     reuse_events |-> Reuse(article),
     n_authors |-> Max(Len(article.authors), 1),
     n_institutions |-> 1,
     source_type |-> "dataset"]

\* connectors.github_connector.normalize_item: a repository as a normalized
\* artifact record.
normalize_github_item(repo) ==
    [is_public |-> TRUE, license |-> IF repo.has_license THEN "license" ELSE "",
     has_doi |-> FALSE, has_readme |-> repo.has_readme, is_standard_format |-> TRUE,
     reuse_events |-> repo.stars + repo.forks,
     n_authors |-> 1,
     n_institutions |-> 1,
     source_type |-> "code"]

\* The repositories fetch_github_data lists: name, stars, forks, has_license, has_readme.
Repos ==
    {[name |-> "sleep-tools", stars |-> 5, forks |-> 0, has_license |-> TRUE,
      has_readme |-> TRUE],
     [name |-> "hrv", stars |-> 60, forks |-> 20, has_license |-> TRUE,
      has_readme |-> TRUE],
     [name |-> "notes", stars |-> 0, forks |-> 0, has_license |-> FALSE,
      has_readme |-> TRUE],
     [name |-> "dotfiles", stars |-> 0, forks |-> 0, has_license |-> TRUE,
      has_readme |-> TRUE]}
RepoByName(name) == CHOOSE repo \in Repos : repo.name = name

\* github_data["top_repos"][:10]
MaxScoredRepos == 10

\* The repository lists: up to two repositories, and one list longer than the
\* ten that are scored.
RepoLists ==
    {l \in UNION {[1..n -> Repos \ {RepoByName("dotfiles")}] : n \in 0..2} :
        \A i \in 1..Len(l), j \in 1..Len(l) : i # j => l[i] # l[j]}
    \cup {[i \in 1..(MaxScoredRepos + 1) |->
            IF i <= MaxScoredRepos THEN RepoByName("dotfiles") ELSE RepoByName("hrv")]}

\* math.log10(c + 1) in 1/10000 on the citation counts drawn below.
Log10E4(n) == CASE n = 1 -> 0 [] n = 100 -> 20000 [] n = 1000 -> 30000

\* sum(d["score"] for d in scores), in 1/1000.
RECURSIVE SumScores(_)
SumScores(scores) ==
    IF scores = <<>> THEN 0 ELSE Head(scores).score + SumScores(Tail(scores))

\* round(x, 2) of the float x = paper_impact + artifact_total, n being x in
\* 1/10000.  When x is halfway between two hundredths as a decimal, the float
\* lies on either side of the tie (it depends on the binary sum), and the
\* result is either neighbour.
RoundFloat(n, up) ==
    IF n % 100 = 50 THEN (n \div 100) + (IF up THEN 1 ELSE 0) ELSE RoundDiv(n, 100)

\* compute_researcher_qic after _deduplicate_figshare has returned
\* deduped_articles: paper_impact and artifact_total rounded to 1/1000, s_index
\* to 1/100.
compute_researcher_qic(deduped_articles, repos, h, c, up) ==
    LET dataset_scores ==
            [i \in 1..Len(deduped_articles) |->
                score_item(normalize_figshare_item(deduped_articles[i]))]
        scored_repos == Take(repos, MaxScoredRepos)
        repo_scores ==
            [i \in 1..Len(scored_repos) |-> score_item(normalize_github_item(scored_repos[i]))]
        artifact_total == SumScores(dataset_scores) + SumScores(repo_scores)
        paper_impact == IF h > 0 THEN h * (10000 + Log10E4(c + 1)) ELSE 0
        s_index == paper_impact + 10 * artifact_total
    IN  [s_index |-> RoundFloat(s_index, up),
         paper_impact |-> RoundDiv(paper_impact, 10),
         artifact_total |-> artifact_total,
         dataset_scores |-> dataset_scores,
         repo_scores |-> repo_scores]

\* semantic_scholar_data: the h-index and the citation count.
Bibliometrics ==
    {[h_index |-> 0, citation_count |-> 99], [h_index |-> 3, citation_count |-> 99],
     [h_index |-> 12, citation_count |-> 999]}

QicLocalsInit == qic = <<>> /\ qic_prev = <<>>
QicInit ==
    /\ top_repos \in RepoLists
    /\ \E data \in Bibliometrics :
          h_index = data.h_index /\ citation_count = data.citation_count
    /\ qic_pc = "dedup"
    /\ QicLocalsInit
QicIdle ==
    /\ top_repos = <<>> /\ h_index = 0 /\ citation_count = 0
    /\ qic_pc = "idle"
    /\ QicLocalsInit

\* The loops over the deduplicated articles and the repositories, the sums,
\* and the return.
ScoreArtifacts ==
    /\ qic_pc = "dedup"
    /\ dedup_pc = "done"
    /\ \E up \in BOOLEAN :
          qic' = <<compute_researcher_qic(deduped, top_repos, h_index, citation_count, up)>>
    /\ qic_pc' = "done"
    /\ UNCHANGED <<dedupVars, top_repos, h_index, citation_count, qic_prev, notQic>>

\* s with the elements at i and j exchanged.
Swap(s, i, j) == [s EXCEPT ![i] = s[j], ![j] = s[i]]

\* compute_researcher_qic is called again with two articles, or two
\* repositories, of its inputs exchanged.
ComputeAgain ==
    /\ qic_pc = "done"
    /\ qic_prev = <<>>
    /\ \/ \E i, j \in 1..Len(articles) :
            /\ i < j
            /\ articles' = Swap(articles, i, j)
            /\ UNCHANGED top_repos
       \/ \E i, j \in 1..Len(top_repos) :
            /\ i < j
            /\ top_repos' = Swap(top_repos, i, j)
            /\ UNCHANGED articles
    /\ qic_prev' = qic
    /\ qic' = <<>>
    /\ qic_pc' = "dedup"
    /\ dedup_pc' = "phase1"
    /\ standalone' = <<>> /\ components' = <<>> /\ groups' = <<>> /\ deduped' = <<>>
    /\ UNCHANGED <<dedup_prev, h_index, citation_count, notQic>>

(***************************************************************************)
(* Author fetch: backend/connectors/semantic_scholar.py                    *)
(***************************************************************************)

\* dict.get(key, default) on a JSON object, a function from its keys.
Get(d, key, default) == IF key \in DOMAIN d THEN d[key] ELSE default
EmptyDict == <<>>

\* What /author/{id} can answer: a profile, a profile without papers, an object
\* without the requested fields.
AuthorJsons ==
    { [name |-> "Ab B", paperCount |-> 2, citationCount |-> 99, hIndex |-> 3],
      [name |-> "Ab B", paperCount |-> 0, citationCount |-> 0, hIndex |-> 0],
      EmptyDict }

\* What /author/{id}/papers can answer: a page of papers, "data": null, no "data".
\* The value of "data" is <<the list>>, or Null for null.
Null == <<>>
PaperA == [title |-> "Sleep", year |-> 2020, citationCount |-> 60, url |-> "u1"]
PapersJsons == { [data |-> <<(<<PaperA>>)>>], [data |-> Null], EmptyDict }

retries == 3

\* Lines 48-64: the dict built from the two answers.
AuthorResult(raw, papers_raw) ==
    LET data == Get(papers_raw, "data", Null)
        papers == IF data = Null \/ data[1] = <<>> THEN <<>> ELSE data[1]
    IN  [name |-> Get(raw, "name", ""),
         paper_count |-> Get(raw, "paperCount", 0),
         citation_count |-> Get(raw, "citationCount", 0),
         h_index |-> Get(raw, "hIndex", 0),
         top_papers |-> [i \in 1..Len(Take(papers, 20)) |->
                            [title |-> papers[i].title, year |-> papers[i].year,
                             citations |-> papers[i].citationCount, url |-> papers[i].url]]]

FetchLocalsInit ==
    /\ fetch_call = 1 /\ attempt = 0 /\ fetch_raw = <<>> /\ fetch_log = <<>>
    /\ fetch_result = <<>> /\ fetch_raised = FALSE

FetchInit ==
    /\ author_json \in AuthorJsons
    /\ papers_json \in PapersJsons
    /\ author_cache \in {<<>>, <<AuthorResult(author_json, papers_json)>>}
    /\ (author_cache # <<>> => author_cache[1].paper_count > 0)
    /\ fetch_pc = "idle"
    /\ FetchLocalsInit

FetchIdle ==
    /\ author_json = EmptyDict /\ papers_json = EmptyDict /\ author_cache = <<>>
    /\ fetch_pc = "off"
    /\ FetchLocalsInit

\* fetch_author_data up to the first await: a truthy cached dict is returned,
\* otherwise the author request is sent.
CallFetchAuthorData ==
    /\ fetch_pc = "idle"
    /\ IF author_cache # <<>> /\ author_cache[1] # EmptyDict
       THEN fetch_result' = author_cache /\ fetch_pc' = "done"
       ELSE fetch_result' = <<>> /\ fetch_pc' = "request"
    /\ UNCHANGED <<author_json, papers_json, author_cache, fetch_call, attempt, fetch_raw,
                   fetch_log, fetch_raised, notFetch>>

\* One _fetch_with_retry call returns `json`: the author call is followed by
\* the papers call; after the papers call fetch_author_data builds the result,
\* caches it when paper_count > 0 and returns it.
FetchReturns(json) ==
    IF fetch_call = 1
    THEN /\ fetch_raw' = <<json>>
         /\ fetch_call' = 2
         /\ attempt' = 0
         /\ fetch_pc' = "request"
         /\ UNCHANGED <<author_cache, fetch_result>>
    ELSE LET res == AuthorResult(fetch_raw[1], json)
         IN  /\ fetch_raw' = Append(fetch_raw, json)
             /\ fetch_result' = <<res>>
             /\ author_cache' = IF res.paper_count > 0 THEN <<res>> ELSE author_cache
             /\ fetch_pc' = "done"
             /\ UNCHANGED <<fetch_call, attempt>>

\* _fetch_with_retry, lines 18-24: the answer to client.get arrives.  A 429
\* starts asyncio.sleep(3 * (attempt + 1)); any other status goes through
\* raise_for_status(), which raises out of fetch_author_data (no try/except), as
\* does an exception of client.get; a 200 returns resp.json().
FetchRespond ==
    /\ fetch_pc = "request"
    /\ \E resp \in Outcomes :
          LET sent == Append(fetch_log, [call |-> fetch_call, kind |-> "request", wait |-> 0])
          IN  IF resp = RateLimited
              THEN /\ fetch_log' = Append(sent, [call |-> fetch_call, kind |-> "sleep",
                                                   wait |-> 3 * (attempt + 1)])
                   /\ fetch_pc' = "sleep"
                   /\ UNCHANGED <<author_cache, fetch_call, attempt, fetch_raw, fetch_result,
                                  fetch_raised>>
              ELSE IF resp # Ok
              THEN /\ fetch_log' = sent
                   /\ fetch_raised' = TRUE
                   /\ fetch_pc' = "done"
                   /\ UNCHANGED <<author_cache, fetch_call, attempt, fetch_raw, fetch_result>>
              ELSE /\ fetch_log' = sent
                   /\ FetchReturns(IF fetch_call = 1 THEN author_json ELSE papers_json)
                   /\ UNCHANGED fetch_raised
    /\ UNCHANGED <<author_json, papers_json, notFetch>>

\* _fetch_with_retry, lines 17, 21-22, 26: the sleep ends and the loop continues
\* with the next attempt, or falls out of range(retries) and returns {}.
FetchWake ==
    /\ fetch_pc = "sleep"
    /\ IF attempt + 1 < retries
       THEN /\ attempt' = attempt + 1
            /\ fetch_pc' = "request"
            /\ UNCHANGED <<author_cache, fetch_call, fetch_raw, fetch_result>>
       ELSE FetchReturns(EmptyDict)
    /\ UNCHANGED <<author_json, papers_json, fetch_log, fetch_raised, notFetch>>

(***************************************************************************)
(* Geocoder: backend/geocoder.py                                           *)
(***************************************************************************)

MaxGeocodeCalls == 2
MaxClock == 13
GeoCalls == 1..MaxGeocodeCalls

\* asyncio.sleep(1.1), in tenths of a second.
SleepTenths == 11

\* The queries: one shorter than three characters, two with the same cache key,
\* one with another key.
GeoQueries == {"ab", "MIT", "mit ", "Oslo"}
CacheKey(query) ==
    CASE query = "ab" -> "geocode:ab"
      [] query \in {"MIT", "mit "} -> "geocode:mit"
      [] query = "Oslo" -> "geocode:oslo"
GeoKeys == {CacheKey(q) : q \in GeoQueries}
TooShort(query) == query = "ab"

\* What Nominatim can answer: a list with a hit, an empty list, an error status
\* (raise_for_status raises) or no answer at all (timeout, connection error).
GeoHit(query) == [lat |-> 42, lng |-> 71, display_name |-> query]
\* The cached marker "__none__" and the returned None, as records so that they
\* compare with a hit.
NoneMarker == [lat |-> 0, lng |-> 0, display_name |-> "__none__"]
GeoNone == [lat |-> 0, lng |-> 0, display_name |-> None]
GeoOutcomes == {"hit", "empty", "500", "exc"}

GeoInit ==
    /\ geo_query \in [GeoCalls -> GeoQueries]
    /\ geo_pc = [t \in GeoCalls |-> "new"]
    /\ geo_lock = 0
    /\ geo_waiters = <<>>
    /\ geo_cache = [k \in GeoKeys |-> <<>>]
    /\ geo_results = [t \in GeoCalls |-> <<>>]
    /\ geo_return = [t \in GeoCalls |-> <<>>]
    /\ geo_clock = 0
    /\ geo_wake = [t \in GeoCalls |-> 0]
    /\ geo_log = <<>>

GeoIdle ==
    /\ geo_query = <<>> /\ geo_pc = <<>> /\ geo_lock = 0 /\ geo_waiters = <<>>
    /\ geo_cache = <<>> /\ geo_results = <<>> /\ geo_return = <<>>
    /\ geo_clock = 0 /\ geo_wake = <<>> /\ geo_log = <<>>

\* Call t holds the lock and awaits client.get.
StartRequest(t) ==
    /\ geo_lock' = t
    /\ geo_pc' = [geo_pc EXCEPT ![t] = "request"]
    /\ geo_log' = Append(geo_log, [kind |-> "start", call |-> t, at |-> geo_clock])

\* geocode up to its first suspension: the length test, the cache lookup
\* ("__none__" stands for a cached miss), then acquire(): the lock is taken at
\* once when it is free and nobody waits, otherwise the call queues.
GeocodeCall ==
    \E t \in GeoCalls :
        /\ geo_pc[t] = "new"
        /\ LET cached == geo_cache[CacheKey(geo_query[t])]
           IN  IF TooShort(geo_query[t])
               THEN /\ geo_return' = [geo_return EXCEPT ![t] = <<GeoNone>>]
                    /\ geo_pc' = [geo_pc EXCEPT ![t] = "done"]
                    /\ UNCHANGED <<geo_lock, geo_waiters, geo_log>>
               ELSE IF cached # <<>>
               THEN /\ geo_return' = [geo_return EXCEPT ![t] =
                                         IF cached[1] = NoneMarker THEN <<GeoNone>> ELSE cached]
                    /\ geo_pc' = [geo_pc EXCEPT ![t] = "done"]
                    /\ UNCHANGED <<geo_lock, geo_waiters, geo_log>>
               ELSE IF geo_lock = 0 /\ geo_waiters = <<>>
               THEN StartRequest(t) /\ UNCHANGED <<geo_waiters, geo_return>>
               ELSE /\ geo_waiters' = Append(geo_waiters, t)
                    /\ geo_pc' = [geo_pc EXCEPT ![t] = "wait"]
                    /\ UNCHANGED <<geo_lock, geo_return, geo_log>>
        /\ UNCHANGED <<geo_query, geo_cache, geo_results, geo_clock, geo_wake, notGeo>>

\* release() wakes the first waiter, which takes the lock and sends its request.
LockGranted ==
    /\ geo_lock = 0
    /\ geo_waiters # <<>>
    /\ StartRequest(Head(geo_waiters))
    /\ geo_waiters' = Tail(geo_waiters)
    /\ UNCHANGED <<geo_query, geo_cache, geo_results, geo_return, geo_clock, geo_wake, notGeo>>

\* Lines 35-52: the request ends.  An exception (of client.get or of
\* raise_for_status) is caught by `except Exception: return None`, which leaves
\* the `async with` block and releases the lock; otherwise results is set and
\* asyncio.sleep(1.1) starts with the lock held.
GeocodeRespond ==
    \E t \in GeoCalls, resp \in GeoOutcomes :
        /\ geo_pc[t] = "request"
        /\ geo_log' = Append(geo_log, [kind |-> "end", call |-> t, at |-> geo_clock])
        /\ IF resp \in {"500", "exc"}
           THEN /\ geo_return' = [geo_return EXCEPT ![t] = <<GeoNone>>]
                /\ geo_pc' = [geo_pc EXCEPT ![t] = "done"]
                /\ geo_lock' = 0
                /\ UNCHANGED <<geo_results, geo_wake>>
           ELSE /\ geo_results' = [geo_results EXCEPT ![t] =
                                      IF resp = "hit" THEN <<GeoHit(geo_query[t])>> ELSE <<>>]
                /\ geo_wake' = [geo_wake EXCEPT ![t] = geo_clock + SleepTenths]
                /\ geo_pc' = [geo_pc EXCEPT ![t] = "sleep"]
                /\ UNCHANGED <<geo_lock, geo_return>>
        /\ UNCHANGED <<geo_query, geo_waiters, geo_cache, geo_clock, notGeo>>

\* Lines 52-66: the sleep ends, the lock is released, the result (or the
\* "__none__" marker for an empty answer) is cached and returned.
GeocodeWake ==
    \E t \in GeoCalls :
        /\ geo_pc[t] = "sleep"
        /\ geo_clock >= geo_wake[t]
        /\ geo_lock' = 0
        /\ geo_cache' = [geo_cache EXCEPT ![CacheKey(geo_query[t])] =
                            IF geo_results[t] = <<>> THEN <<NoneMarker>> ELSE geo_results[t]]
        /\ geo_return' = [geo_return EXCEPT ![t] =
                             IF geo_results[t] = <<>> THEN <<GeoNone>> ELSE geo_results[t]]
        /\ geo_pc' = [geo_pc EXCEPT ![t] = "done"]
        /\ UNCHANGED <<geo_query, geo_waiters, geo_results, geo_clock, geo_wake, geo_log, notGeo>>

\* A tenth of a second passes.
GeoTick ==
    /\ geo_clock < MaxClock
    /\ geo_clock' = geo_clock + 1
    /\ UNCHANGED <<geo_query, geo_pc, geo_lock, geo_waiters, geo_cache, geo_results, geo_return,
                   geo_wake, geo_log, notGeo>>

(***************************************************************************)
(* Source fetch and merge: backend/main.py                                 *)
(***************************************************************************)

Sources == {"s2", "gh", "fs", "gs"}

\* "key" in d, d.get(key, default) of a dict: Get above.
Has(d, key) == key \in DOMAIN d

\* What each connector returns when it succeeds.
ArticleById(i) == CHOOSE art \in Articles : art.id = i
S2Datas ==
    { [name |-> "Ab B", paper_count |-> 2, citation_count |-> 99, h_index |-> 3,
       top_papers |-> <<[title |-> "Sleep study", year |-> 2020, citations |-> 60,
                         url |-> "u1"]>>],
      [name |-> "", paper_count |-> 0, citation_count |-> 0, h_index |-> 0,
       top_papers |-> <<>>] }
GhDatas ==
    { [total_repos |-> 2, total_stars |-> 65,
       top_repos |-> <<RepoByName("hrv"), RepoByName("sleep-tools")>>] }
FsDatas ==
    { [total_datasets |-> 2, total_downloads |-> 12, total_views |-> 4,
       articles |-> <<ArticleById(2), ArticleById(3)>>] }
GsDatas ==
    { [name |-> "Ab B", citation_count |-> 999, h_index |-> 12, i10_index |-> 5,
       paper_count |-> 3,
       publications |->
           <<[title |-> "Sleep  Study.", year |-> 2020, citations |-> 80,
              source |-> "google_scholar"],
             [title |-> "Sleep studies", year |-> 2021, citations |-> 70,
              source |-> "google_scholar"],
             [title |-> "Sleep", year |-> 2019, citations |-> 1,
              source |-> "google_scholar"]>>] }
DataOf(src) ==
    CASE src = "s2" -> S2Datas [] src = "gh" -> GhDatas [] src = "fs" -> FsDatas
      [] src = "gs" -> GsDatas

\* _EMPTY_S2, _EMPTY_GH, _EMPTY_FS, _EMPTY_GS and the records lines 221-236
\* build for a task that raised; `_error` is "no_id" or str(exception).
EmptyRecord(src, name, error) ==
    CASE src = "s2" ->
            [name |-> name, paper_count |-> 0, citation_count |-> 0, h_index |-> 0,
             top_papers |-> <<>>, _error |-> error]
      [] src = "gh" ->
            [total_repos |-> 0, total_stars |-> 0, top_repos |-> <<>>, _error |-> error]
      [] src = "fs" ->
            [total_datasets |-> 0, total_downloads |-> 0, total_views |-> 0,
             articles |-> <<>>, _error |-> error]
      [] src = "gs" ->
            [name |-> "", citation_count |-> 0, h_index |-> 0, i10_index |-> 0,
             paper_count |-> 0, publications |-> <<>>, _error |-> error]

\* The researcher's display_name.
DisplayName == "Ab B"

\* Mutant of OrEmpty: the substituted record carries no "_error" key.
OrEmpty_untagged(src, res) ==
    IF res.raises
    THEN [k \in DOMAIN EmptyRecord(src, "", "") \ {"_error"} |->
             EmptyRecord(src, IF src = "s2" THEN DisplayName ELSE "", "")[k]]
    ELSE res.value

\* Lines 221-236: results[i] if not isinstance(results[i], Exception) else {...}.
OrEmpty(src, res) ==
    IF res.raises
    THEN EmptyRecord(src, IF src = "s2" THEN DisplayName ELSE "", "exc")
    ELSE res.value

\* _normalize_title: lower().strip(), punctuation removed, whitespace runs
\* collapsed to one space.
_normalize_title(title) ==
    LET t == SelectSeq(Strip(Lower(CharsOf(title))), LAMBDA c : c \notin {".", ",", ":", "-"})
        RECURSIVE Squeeze(_)
        Squeeze(u) ==
            IF Len(u) < 2 THEN u
            ELSE IF u[1] = " " /\ u[2] = " " THEN Squeeze(Tail(u))
            ELSE <<u[1]>> \o Squeeze(Tail(u))
    IN  Squeeze(t)

\* SequenceMatcher(None, a, b).ratio() > 0.85
TitleRatioAbove(a, b) ==
    LET total == Len(a) + Len(b)
    IN  IF total = 0 THEN TRUE
        ELSE 40 * MatchingSize(a, b, 1, Len(a), 1, Len(b)) > 17 * total

\* Lines 153-176: each Google Scholar paper raises the citations of the first
\* S2 paper with a similar title, or is appended.
RECURSIVE MergePapers(_, _, _)
MergePapers(s2_papers, s2_normalized, gs_papers) ==
    IF gs_papers = <<>> THEN s2_papers
    ELSE LET gs_paper == Head(gs_papers)
             gs_norm == _normalize_title(gs_paper.title)
             hits == {i \in 1..Len(s2_normalized) : TitleRatioAbove(gs_norm, s2_normalized[i])}
         IN  IF Len(gs_norm) < 10 THEN MergePapers(s2_papers, s2_normalized, Tail(gs_papers))
             ELSE IF hits # {}
             THEN LET i == CHOOSE k \in hits : \A m \in hits : k <= m
                  IN  MergePapers(
                          [s2_papers EXCEPT ![i].citations = Max(@, gs_paper.citations)],
                          s2_normalized, Tail(gs_papers))
             ELSE MergePapers(
                      Append(s2_papers,
                             [title |-> gs_paper.title, year |-> gs_paper.year,
                              citations |-> gs_paper.citations, url |-> "",
                              source |-> "google_scholar"]),
                      s2_normalized, Tail(gs_papers))

\* list.sort(key=citations, reverse=True): stable, equal keys keep their order.
RECURSIVE SortByCitations(_)
SortByCitations(papers) ==
    IF papers = <<>> THEN <<>>
    ELSE LET rest == SortByCitations(Tail(papers))
             before == SelectSeq(rest, LAMBDA q : q.citations > Head(papers).citations)
             after == SelectSeq(rest, LAMBDA q : q.citations <= Head(papers).citations)
         IN  before \o <<Head(papers)>> \o after

\* _merge_s2_gs
_merge_s2_gs(s2, gs) ==
    IF Has(gs, "_error")
    THEN [k \in DOMAIN s2 \cup {"i10_index", "_sources"} |->
             CASE k = "i10_index" -> 0
               [] k = "_sources" -> <<"semantic_scholar">>
               [] OTHER -> s2[k]]
    ELSE IF Has(s2, "_error")
    THEN [name |-> Get(gs, "name", ""),
          paper_count |-> Get(gs, "paper_count", 0),
          citation_count |-> Get(gs, "citation_count", 0),
          h_index |-> Get(gs, "h_index", 0),
          i10_index |-> Get(gs, "i10_index", 0),
          top_papers |-> Take(Get(gs, "publications", <<>>), 20),
          _sources |-> <<"google_scholar">>]
    ELSE LET s2_papers == Get(s2, "top_papers", <<>>)
             s2_normalized == [i \in 1..Len(s2_papers) |-> _normalize_title(s2_papers[i].title)]
             merged == SortByCitations(
                           MergePapers(s2_papers, s2_normalized, Get(gs, "publications", <<>>)))
         IN  [name |-> IF Get(s2, "name", "") # "" THEN s2.name ELSE Get(gs, "name", ""),
              paper_count |-> Len(merged),
              citation_count |-> Max(Get(s2, "citation_count", 0), Get(gs, "citation_count", 0)),
              h_index |-> Max(Get(s2, "h_index", 0), Get(gs, "h_index", 0)),
              i10_index |-> Get(gs, "i10_index", 0),
              top_papers |-> Take(merged, 20),
              _sources |-> <<"semantic_scholar", "google_scholar">>]

\* get_context: the status reported for an academic source, read off the
\* "_sources" of the merged record.
academic_info(merged_data, source) ==
    IF source \in Range(Get(merged_data, "_sources", <<>>)) THEN "connected" ELSE "error"

FaInit ==
    /\ fa_ids \in SUBSET Sources
    /\ fa_pc = "idle"
    /\ fa_results = [src \in Sources |-> <<>>]
    /\ fa_out = <<>>
    /\ fa_raised = FALSE

FaIdle ==
    /\ fa_ids = {} /\ fa_pc = "off" /\ fa_results = <<>> /\ fa_out = <<>> /\ fa_raised = FALSE

\* Lines 209-219: a source without an identifier gets the _empty coroutine,
\* which returns its _EMPTY_ record; the other three or fewer tasks start.
CallFetchAll ==
    /\ fa_pc = "idle"
    /\ fa_pc' = "gather"
    /\ fa_results' = [src \in Sources |->
                         IF src \in fa_ids THEN <<>>
                         ELSE <<Return(EmptyRecord(src, "", "no_id"))>>]
    /\ UNCHANGED <<fa_ids, fa_out, fa_raised, notFa>>

\* One connector returns its dict.
SourceReturns ==
    \E src \in Sources : \E data \in DataOf(src) :
        /\ fa_pc = "gather"
        /\ fa_results[src] = <<>>
        /\ fa_results' = [fa_results EXCEPT ![src] = <<Return(data)>>]
        /\ UNCHANGED <<fa_ids, fa_pc, fa_out, fa_raised, notFa>>

\* One connector raises (a timeout, a connection error, an error status).
SourceRaises ==
    \E src \in Sources :
        /\ fa_pc = "gather"
        /\ fa_results[src] = <<>>
        /\ fa_results' = [fa_results EXCEPT ![src] = <<Raise>>]
        /\ UNCHANGED <<fa_ids, fa_pc, fa_out, fa_raised, notFa>>

\* gather(..., return_exceptions=True) returns; lines 221-239 substitute the
\* failed sources, merge S2 with Google Scholar and return.  The caller hands
\* the three dicts to compute_researcher_qic, which starts with
\* _deduplicate_figshare(figshare_data.get("articles", [])).
FetchAllReturns ==
    /\ fa_pc = "gather"
    /\ \A src \in Sources : fa_results[src] # <<>>
    /\ LET data == [src \in Sources |-> OrEmpty(src, fa_results[src][1])]
           merged_academic == _merge_s2_gs(data["s2"], data["gs"])
       IN  /\ fa_out' = <<[merged_academic |-> merged_academic, s2_data |-> data["s2"],
                            gh_data |-> data["gh"], fs_data |-> data["fs"],
                            gs_data |-> data["gs"]]>>
           /\ articles' = Get(data["fs"], "articles", <<>>)
           /\ top_repos' = Get(data["gh"], "top_repos", <<>>)
           /\ h_index' = Get(merged_academic, "h_index", 0)
           /\ citation_count' = Get(merged_academic, "citation_count", 0)
    /\ fa_pc' = "done"
    /\ dedup_pc' = "phase1"
    /\ qic_pc' = "dedup"
    /\ UNCHANGED <<fa_ids, fa_results, fa_raised, standalone, components, groups, deduped,
                   dedup_prev, qic, qic_prev, notFaDedupQic>>

(***************************************************************************)
(* Cache: backend/cache.py                                                 *)
(***************************************************************************)

MaxTime == 3

\* The keys the connectors use, and _key_path: the file named by the first 16
\* hex digits of the key's SHA-256.
CacheKeys == {"s2:author:42", "geocode:mit"}
_key_path(key) ==
    CASE key = "s2:author:42" -> "d4a3d2c0c6b8e1f7.json"
      [] key = "geocode:mit" -> "5be0a1c9d37f4e62.json"

\* The values the connectors store, and their JSON text.
CacheValues == {"__none__", "author"}
JsonText(data) ==
    CASE data = "__none__" -> "\"__none__\""
      [] data = "author" -> "{\"name\": \"Ab B\", \"h_index\": 3}"
JsonValue(text) == CHOOSE data \in CacheValues : JsonText(data) = text
Ttls == {0, 2}

\* json.dump(entry, f) writes the object in chunks; a write that fails leaves a
\* prefix of them in the file, which open(path, "w") has truncated.
Chunks(entry) ==
    <<"{", "\"data\": ", JsonText(entry.data), ", \"ts\": ", entry.ts, ", \"ttl\": ", entry.ttl, "}">>

\* json.load(f): the entry, or JSONDecodeError on anything but a complete object.
JsonLoad(chunks) ==
    IF Len(chunks) = 8 /\ chunks[8] = "}"
    THEN Return([data |-> JsonValue(chunks[3]), ts |-> chunks[5], ttl |-> chunks[7]])
    ELSE Raise

\* Mutant of Expired: an entry expires when exactly ttl seconds have elapsed.
Expired_at_ttl(entry, now) == now - entry.ts >= entry.ttl

\* time.time() - entry["ts"] > entry["ttl"]
Expired(entry, now) == now - entry.ts > entry.ttl

CacheInit ==
    /\ cache_files = [path \in {_key_path(k) : k \in CacheKeys} |-> <<>>]
    /\ cache_now = 0
    /\ cache_op = "none"
    /\ cache_got = <<>>
    /\ cache_last = [k \in CacheKeys |-> <<>>]

CacheIdle ==
    /\ cache_files = <<>> /\ cache_now = 0 /\ cache_op = "off" /\ cache_got = <<>>
    /\ cache_last = <<>>

\* get(key)
CacheGet ==
    \E key \in CacheKeys :
        LET path == _key_path(key)
            loaded == JsonLoad(cache_files[path][1])
        IN  /\ cache_op' = "get"
            /\ IF cache_files[path] = <<>>
               THEN /\ cache_got' = <<[key |-> key, value |-> None, raised |-> FALSE]>>
                    /\ UNCHANGED cache_files
               ELSE IF loaded.raises
               THEN /\ cache_got' = <<[key |-> key, value |-> None, raised |-> FALSE]>>
                    /\ UNCHANGED cache_files
               ELSE IF Expired(loaded.value, cache_now)
               THEN /\ cache_files' = [cache_files EXCEPT ![path] = <<>>]
                    /\ cache_got' = <<[key |-> key, value |-> None, raised |-> FALSE]>>
               ELSE /\ cache_got' = <<[key |-> key, value |-> loaded.value.data,
                                       raised |-> FALSE]>>
                    /\ UNCHANGED cache_files
            /\ UNCHANGED <<cache_now, cache_last, notCache>>

\* set(key, data, ttl): the file is opened for writing and the entry dumped.
CacheSet ==
    \E key \in CacheKeys, data \in CacheValues, ttl \in Ttls :
        LET entry == [data |-> data, ts |-> cache_now, ttl |-> ttl]
        IN  /\ cache_files' = [cache_files EXCEPT ![_key_path(key)] = <<Chunks(entry)>>]
            /\ cache_last' = [cache_last EXCEPT ![key] = <<entry>>]
            /\ cache_op' = "set"
            /\ UNCHANGED <<cache_now, cache_got, notCache>>

\* set(key, data, ttl) fails while writing (the disk is full, the process is
\* killed): the file holds the first n chunks.
CacheSetFails ==
    \E key \in CacheKeys, data \in CacheValues, ttl \in Ttls, n \in 0..7 :
        LET entry == [data |-> data, ts |-> cache_now, ttl |-> ttl]
        IN  /\ cache_files' = [cache_files EXCEPT ![_key_path(key)] =
                                  <<SubSeq(Chunks(entry), 1, n)>>]
            /\ cache_last' = [cache_last EXCEPT ![key] = <<>>]
            /\ cache_op' = "set failed"
            /\ UNCHANGED <<cache_now, cache_got, notCache>>

\* invalidate(key)
CacheInvalidate ==
    \E key \in CacheKeys :
        /\ cache_files' = [cache_files EXCEPT ![_key_path(key)] = <<>>]
        /\ cache_last' = [cache_last EXCEPT ![key] = <<>>]
        /\ cache_op' = "invalidate"
        /\ UNCHANGED <<cache_now, cache_got, notCache>>

\* A second passes.
CacheTick ==
    /\ cache_now < MaxTime
    /\ cache_now' = cache_now + 1
    /\ cache_op' = "tick"
    /\ UNCHANGED <<cache_files, cache_got, cache_last, notCache>>

(***************************************************************************)
(* Profile update tokens: backend/researchers.py                           *)
(***************************************************************************)

\* Time runs in ticks; the timestamps stored in the table are strings with a
\* resolution of one second.  The hour of the token lifetime is scaled down to
\* HourSeconds seconds.
TicksPerSecond == 2
HourSeconds == 2
MaxTokClock == 5
MaxIssued == 2
HourTicks == HourSeconds * TicksPerSecond

\* `if row["attempts"] >= 5`
MaxAttempts == 5

Slugs == {"ab-b", "cd-e"}
Codes == {"000001", "999999"}

\* strftime("%Y-%m-%d %H:%M:%S"): the fraction of the second is dropped.
Strftime(t) == t \div TicksPerSecond

\* _hash_token: the leading hex digits of hashlib.sha256(code.encode()).hexdigest()
_hash_token(code) ==
    CASE code = "000001" -> "a7fda0b6"
      [] code = "999999" -> "937377f0"

\* Mutant of Selected: the `used = 0` condition is dropped.
Selected_used_too(row, slug, now) == row.slug = slug /\ row.expires_at > now

\* verify_update_token, the WHERE clause: slug = ? AND used = 0 AND expires_at > ?
Selected(row, slug, now) == row.slug = slug /\ row.used = 0 /\ row.expires_at > now

\* verify_update_token, the loop over the selected rows from row i on, in id
\* order: each row visited gets attempts + 1; the first row that has fewer than
\* MaxAttempts attempts and the hash of the code ends the loop and is marked used.
\* The value is the table after the call and the id of that row, 0 when there is none.
RECURSIVE VerifyFrom(_, _, _, _, _)
VerifyFrom(rows, i, slug, token_hash, now) ==
    IF i > Len(rows) THEN [rows |-> rows, id |-> 0]
    ELSE IF ~Selected(rows[i], slug, now)
    THEN VerifyFrom(rows, i + 1, slug, token_hash, now)
    ELSE LET row == rows[i]
             counted == [rows EXCEPT ![i].attempts = @ + 1]
         IN  IF row.attempts >= MaxAttempts
             THEN VerifyFrom(counted, i + 1, slug, token_hash, now)
             ELSE IF row.token_hash = token_hash
             THEN [rows |-> [counted EXCEPT ![i].used = 1], id |-> i]
             ELSE VerifyFrom(counted, i + 1, slug, token_hash, now)

NoRow == [slug |-> "", token_hash |-> "", expires_at |-> 0, attempts |-> 0, used |-> 0]

TokInit ==
    /\ tok_rows = <<>> /\ tok_now = 0 /\ tok_issued = <<>> /\ tok_hits = <<>>
    /\ tok_last = <<>>
TokIdle ==
    /\ tok_rows = <<>> /\ tok_now = -1 /\ tok_issued = <<>> /\ tok_hits = <<>>
    /\ tok_last = <<>>

\* create_update_token(slug): a random code, its hash stored with the expiry.
CreateUpdateToken ==
    /\ tok_now >= 0
    /\ Len(tok_rows) < MaxIssued
    /\ \E slug \in Slugs, code \in Codes :
          /\ tok_rows' = Append(tok_rows,
                                [slug |-> slug, token_hash |-> _hash_token(code),
                                 expires_at |-> Strftime(tok_now) + HourSeconds,
                                 attempts |-> 0, used |-> 0])
          /\ tok_issued' = Append(tok_issued, [code |-> code, at |-> tok_now])
    /\ tok_hits' = Append(tok_hits, 0)
    /\ tok_last' = <<>>
    /\ UNCHANGED <<tok_now, notTok>>

\* verify_update_token(slug, code); the calls stop once a row has been counted
\* past MaxAttempts.
VerifyUpdateToken ==
    /\ tok_now >= 0
    /\ \A i \in 1..Len(tok_rows) : tok_rows[i].attempts <= MaxAttempts
    /\ \E slug \in Slugs, code \in Codes :
          LET v == VerifyFrom(tok_rows, 1, slug, _hash_token(code), Strftime(tok_now))
          IN  /\ tok_rows' = v.rows
              /\ tok_hits' = [i \in 1..Len(tok_hits) |->
                                 IF i = v.id THEN tok_hits[i] + 1 ELSE tok_hits[i]]
              /\ tok_last' = <<[slug |-> slug, code |-> code,
                                 returned |-> v.id # 0, id |-> v.id,
                                 row |-> IF v.id # 0 THEN tok_rows[v.id] ELSE NoRow]>>
    /\ UNCHANGED <<tok_now, tok_issued, notTok>>

\* Time passes.
TokTick ==
    /\ tok_now >= 0
    /\ tok_now < MaxTokClock
    /\ tok_now' = tok_now + 1
    /\ tok_last' = <<>>
    /\ UNCHANGED <<tok_rows, tok_issued, tok_hits, notTok>>

(***************************************************************************)
(* Rate limiters and the chat endpoints: backend/main.py                   *)
(***************************************************************************)

\* The limiters, scaled down: _chat_ip_limiter (30 per 3600 s), _chat_daily_limiter
\* (150 per 86400 s), _byok_ip_limiter (10 per 3600 s).
IpMax == 1
IpWindow == 2
DailyMax == 2
DailyWindow == 3
ByokMax == 1
ByokWindow == 1
MaxChatClock == 3

Limiters == {"chat_ip", "chat_daily", "byok_ip"}
max_requests(lim) ==
    CASE lim = "chat_ip" -> IpMax [] lim = "chat_daily" -> DailyMax [] lim = "byok_ip" -> ByokMax
window(lim) ==
    CASE lim = "chat_ip" -> IpWindow [] lim = "chat_daily" -> DailyWindow
      [] lim = "byok_ip" -> ByokWindow

\* The keys: the client address (x-real-ip), "__global__" for the daily limiter.
ClientIps == {"10.0.0.1", "10.0.0.2"}
KeysOf(lim) == IF lim = "chat_daily" THEN {"__global__"} ELSE ClientIps

\* Mutant of is_allowed: `len(hits) > self.max_requests`.
is_allowed_off_by_one(lim, hits, now) ==
    LET cutoff == now - window(lim)
        kept == SelectSeq(hits, LAMBDA t : t > cutoff)
    IN  IF Len(kept) > max_requests(lim)
        THEN [allowed |-> FALSE, hits |-> kept]
        ELSE [allowed |-> TRUE, hits |-> Append(kept, now)]

\* RateLimiter.is_allowed: the value returned and the new _hits[key].
is_allowed(lim, hits, now) ==
    LET cutoff == now - window(lim)
        kept == SelectSeq(hits, LAMBDA t : t > cutoff)
    IN  IF Len(kept) >= max_requests(lim)
        THEN [allowed |-> FALSE, hits |-> kept]
        ELSE [allowed |-> TRUE, hits |-> Append(kept, now)]

ChatInit ==
    /\ rl_hits = [lim \in Limiters |-> [key \in KeysOf(lim) |-> <<>>]]
    /\ rl_allowed = [lim \in Limiters |-> [key \in KeysOf(lim) |-> <<>>]]
    /\ rl_now = 0
    /\ chat_last = <<>>
ChatIdle ==
    /\ rl_hits = <<>> /\ rl_allowed = <<>> /\ rl_now = -1 /\ chat_last = <<>>

\* The limiter state after is_allowed(key) returned r.
Called(hits, lim, key, r) == [hits EXCEPT ![lim][key] = r.hits]
Allowed(allowed, lim, key, r) ==
    IF r.allowed THEN [allowed EXCEPT ![lim][key] = Append(@, rl_now)] ELSE allowed

\* POST /chat from client_ip: the daily budget, then the per-IP limit, then the
\* pipeline, which does not touch the limiters.
Chat ==
    /\ rl_now >= 0
    /\ \E client_ip \in ClientIps :
          LET daily == is_allowed("chat_daily", rl_hits["chat_daily"]["__global__"], rl_now)
              hits1 == Called(rl_hits, "chat_daily", "__global__", daily)
              allowed1 == Allowed(rl_allowed, "chat_daily", "__global__", daily)
              per_ip == is_allowed("chat_ip", rl_hits["chat_ip"][client_ip], rl_now)
          IN  IF ~daily.allowed
              THEN /\ rl_hits' = hits1
                   /\ rl_allowed' = allowed1
                   /\ chat_last' = <<[endpoint |-> "/chat", ip |-> client_ip, status |-> "503"]>>
              ELSE /\ rl_hits' = Called(hits1, "chat_ip", client_ip, per_ip)
                   /\ rl_allowed' = Allowed(allowed1, "chat_ip", client_ip, per_ip)
                   /\ chat_last' = <<[endpoint |-> "/chat", ip |-> client_ip,
                                      status |-> IF per_ip.allowed THEN "passed" ELSE "429"]>>
    /\ UNCHANGED <<rl_now, notChat>>

\* POST /chat/byok from client_ip: the per-IP limit, then the pipeline.
ChatByok ==
    /\ rl_now >= 0
    /\ \E client_ip \in ClientIps :
          LET per_ip == is_allowed("byok_ip", rl_hits["byok_ip"][client_ip], rl_now)
          IN  /\ rl_hits' = Called(rl_hits, "byok_ip", client_ip, per_ip)
              /\ rl_allowed' = Allowed(rl_allowed, "byok_ip", client_ip, per_ip)
              /\ chat_last' = <<[endpoint |-> "/chat/byok", ip |-> client_ip,
                                 status |-> IF per_ip.allowed THEN "passed" ELSE "429"]>>
    /\ UNCHANGED <<rl_now, notChat>>

\* Time passes.
ChatTick ==
    /\ rl_now >= 0
    /\ rl_now < MaxChatClock
    /\ rl_now' = rl_now + 1
    /\ chat_last' = <<>>
    /\ rl_allowed' = [lim \in Limiters |-> [key \in KeysOf(lim) |->
                         SelectSeq(rl_allowed[lim][key],
                                   LAMBDA t : t >= rl_now' - window(lim))]]
    /\ UNCHANGED <<rl_hits, notChat>>

(***************************************************************************)
(* Specifications                                                          *)
(***************************************************************************)

vars == <<scoreVars, nameVars, resolveVars, affVars, dedupVars, qicVars, fetchVars, geoVars, faVars, cacheVars, tokVars, chatVars>>

\* score_item on every normalized item.
InitScore == ScoreInit /\ NameIdle /\ ResolveIdle /\ AffIdle /\ DedupIdle /\ QicIdle /\ FetchIdle /\ GeoIdle /\ FaIdle /\ CacheIdle /\ TokIdle /\ ChatIdle
NextScore == ScoreItem
SpecScore == InitScore /\ [][NextScore]_vars

\* _name_matches on every pair of names.
InitName == NameInit /\ ScoreIdle /\ ResolveIdle /\ AffIdle /\ DedupIdle /\ QicIdle /\ FetchIdle /\ GeoIdle /\ FaIdle /\ CacheIdle /\ TokIdle /\ ChatIdle
NextName == NameMatch
SpecName == InitName /\ [][NextName]_vars

\* resolve_s2_id against every world and every outcome of every request.
InitResolve == ResolveInit /\ ScoreIdle /\ NameIdle /\ AffIdle /\ DedupIdle /\ QicIdle /\ FetchIdle /\ GeoIdle /\ FaIdle /\ CacheIdle /\ TokIdle /\ ChatIdle
NextResolve == GetDois \/ LookupDoi \/ NameSearch \/ PickLookup
SpecResolve == InitResolve /\ [][NextResolve]_vars

\* fetch_affiliations, called again and again with the same identifiers.
InitAff == AffInit /\ ScoreIdle /\ NameIdle /\ ResolveIdle /\ DedupIdle /\ QicIdle /\ FetchIdle /\ GeoIdle /\ FaIdle /\ CacheIdle /\ TokIdle /\ ChatIdle
NextAff == CallFetchAffiliations \/ TaskStart \/ TaskRespond \/ TaskRetry \/ Merge \/ CacheExpire
SpecAff == InitAff /\ [][NextAff]_vars

\* _deduplicate_figshare on a list of articles, then once more on its own output.
InitDedup == DedupInit /\ ScoreIdle /\ NameIdle /\ ResolveIdle /\ AffIdle /\ QicIdle /\ FetchIdle /\ GeoIdle /\ FaIdle /\ CacheIdle /\ TokIdle /\ ChatIdle
NextDedup == SeparateComponents \/ GroupItems \/ PickBest \/ DeduplicateAgain
SpecDedup == InitDedup /\ [][NextDedup]_vars

\* compute_researcher_qic on articles, repositories and bibliometrics, then
\* once more with two of the articles or repositories exchanged.
InitQic == DedupInit /\ QicInit /\ ScoreIdle /\ NameIdle /\ ResolveIdle /\ AffIdle /\ FetchIdle /\ GeoIdle /\ FaIdle /\ CacheIdle /\ TokIdle /\ ChatIdle
NextQic == SeparateComponents \/ GroupItems \/ PickBest \/ ScoreArtifacts \/ ComputeAgain
SpecQic == InitQic /\ [][NextQic]_vars

\* fetch_author_data against every answer of Semantic Scholar to every request.
InitFetch == FetchInit /\ ScoreIdle /\ NameIdle /\ ResolveIdle /\ AffIdle /\ DedupIdle /\ QicIdle /\ GeoIdle /\ FaIdle /\ CacheIdle /\ TokIdle /\ ChatIdle
NextFetch == CallFetchAuthorData \/ FetchRespond \/ FetchWake
SpecFetch == InitFetch /\ [][NextFetch]_vars

\* Concurrent geocode calls, every answer of Nominatim, every interleaving.
InitGeo == GeoInit /\ ScoreIdle /\ NameIdle /\ ResolveIdle /\ AffIdle /\ DedupIdle /\ QicIdle /\ FetchIdle /\ FaIdle /\ CacheIdle /\ TokIdle /\ ChatIdle
NextGeo == GeocodeCall \/ LockGranted \/ GeocodeRespond \/ GeocodeWake \/ GeoTick
SpecGeo == InitGeo /\ [][NextGeo]_vars

\* _fetch_all with every set of configured sources and every outcome of every
\* connector, followed by compute_researcher_qic on what it returned.
InitFa == FaInit /\ ScoreIdle /\ NameIdle /\ ResolveIdle /\ AffIdle /\ DedupIdle /\ QicIdle /\ FetchIdle /\ GeoIdle /\ CacheIdle /\ TokIdle /\ ChatIdle
NextFa ==
    \/ CallFetchAll \/ SourceReturns \/ SourceRaises \/ FetchAllReturns
    \/ SeparateComponents \/ GroupItems \/ PickBest \/ ScoreArtifacts
SpecFa == InitFa /\ [][NextFa]_vars

\* Every sequence of get, set, failed set and invalidate, with time passing.
InitCache == CacheInit /\ ScoreIdle /\ NameIdle /\ ResolveIdle /\ AffIdle /\ DedupIdle /\ QicIdle /\ FetchIdle /\ GeoIdle /\ FaIdle /\ TokIdle /\ ChatIdle
NextCache == CacheGet \/ CacheSet \/ CacheSetFails \/ CacheInvalidate \/ CacheTick
SpecCache == InitCache /\ [][NextCache]_vars

\* create_update_token and verify_update_token in any order, as time passes.
InitTok == TokInit /\ CacheIdle /\ ScoreIdle /\ NameIdle /\ ResolveIdle /\ AffIdle /\ DedupIdle /\ QicIdle /\ FetchIdle /\ GeoIdle /\ FaIdle /\ ChatIdle
NextTok == CreateUpdateToken \/ VerifyUpdateToken \/ TokTick
SpecTok == InitTok /\ [][NextTok]_vars

\* Requests to /chat and /chat/byok from two clients, as time passes.
InitChat == ChatInit /\ TokIdle /\ CacheIdle /\ ScoreIdle /\ NameIdle /\ ResolveIdle /\ AffIdle /\ DedupIdle /\ QicIdle /\ FetchIdle /\ GeoIdle /\ FaIdle
NextChat == Chat \/ ChatByok \/ ChatTick
SpecChat == InitChat /\ [][NextChat]_vars

(***************************************************************************)
(* Properties                                                              *)
(***************************************************************************)

\* The FAIR gate as the specification states it: not public, or no license.
GateFails(it) == ~it.is_public \/ it.license \in {"", None}

\* C1: FAIR gate totality.  Every item whose gate fails (not public, or no
\* license) is scored quality 0, fair_gate false and score 0, whatever its reuse
\* events, author and institution counts, source type and bonus flags.
C1_FairGateTotality ==
    (scored # <<>> /\ GateFails(item)) =>
        /\ scored[1].quality = 0
        /\ scored[1].fair_gate = FALSE
        /\ scored[1].score = 0

\* An unlicensed public dataset with every bonus and 1000 reuse events was scored.
C1_Witness ==
    /\ scored # <<>>
    /\ item.is_public /\ item.license = ""
    /\ item.has_doi /\ item.has_readme /\ item.is_standard_format
    /\ item.reuse_events = 1000 /\ item.n_authors = 12 /\ item.source_type = "dataset"

\* The name matcher's terms as the specification defines them: the tokens of a
\* name, its surname (the last token) and its given-name tokens (the rest).
NameTokensOf(name) == Split(SubPunct(Lower(name)))
SurnameOf(name) ==
    LET tokens == NameTokensOf(name)
    IN  IF tokens = <<>> THEN <<>> ELSE tokens[Len(tokens)]
GivenOf(name) ==
    LET tokens == NameTokensOf(name)
    IN  IF tokens = <<>> THEN <<>> ELSE SubSeq(tokens, 1, Len(tokens) - 1)
GivenSet(name) == LET given == GivenOf(name) IN {given[i] : i \in 1..Len(given)}

\* Two given-name tokens are identical, or one is a one-character prefix of the other.
TokensAgree(ta, tb) ==
    \/ ta = tb
    \/ Len(ta) = 1 /\ StartsWith(tb, ta)
    \/ Len(tb) = 1 /\ StartsWith(ta, tb)

\* C2: _name_matches returns true whenever the two surnames are equal and at
\* least one name has no given-name token, a single-token name being its own
\* surname with no given names (a bare "B" matches "a B").
C2_BareSurnameMatches ==
    (/\ matched # <<>>
     /\ SurnameOf(display_name) = SurnameOf(author_name)
     /\ (GivenOf(display_name) = <<>> \/ GivenOf(author_name) = <<>>))
    => matched[1] = TRUE

\* C3: for two names of at least two tokens each, _name_matches is true exactly
\* when the surnames are equal and some pair of given-name tokens, one from each
\* name, is identical or one-character-prefix related; so it is false whenever
\* the surnames differ.
C3_TwoTokenNames ==
    (/\ matched # <<>>
     /\ Len(NameTokensOf(display_name)) >= 2
     /\ Len(NameTokensOf(author_name)) >= 2)
    => (matched[1] <=>
            /\ SurnameOf(display_name) = SurnameOf(author_name)
            /\ \E ta \in GivenSet(display_name), tb \in GivenSet(author_name) :
                   TokensAgree(ta, tb))

\* "b-Ab B" was matched with "a. B": only the second given name agrees, by its initial.
C3_Witness ==
    /\ matched = <<TRUE>>
    /\ display_name = <<"B", "-", "A", "b", "-", "B">>
    /\ author_name = <<"a", ".", " ", "B">>

\* Whether an author S2 knows carries a name that matches a display name.
KnownAuthors == {AuthFull, AuthInitial, AuthMiddle, AuthOther, AuthNoId}
NameMatched ==
    [n \in ResolveNames \cup {<<>>} |->
        [a \in KnownAuthors |-> _name_matches(n, a.name)]]

\* The ids the DOI lookups voted for: the authors with an id and a matching name
\* in the author lists of the DOIs that S2 answered.
DoiVoters(j) ==
    {k \in 1..Len(s2Authors[dois[j]]) :
        /\ s2Authors[dois[j]][k].authorId # NoId
        /\ NameMatched[resolve_name][s2Authors[dois[j]][k]]}
AnsweredDois == {j \in 1..Len(doiOk) : doiOk[j]}
VotedIds ==
    UNION {{s2Authors[dois[j]][k].authorId : k \in DoiVoters(j)} : j \in AnsweredDois}
\* The ids S2's name search holds for the display name.
SearchIds ==
    {s2Search[i].authorId :
        i \in {j \in 1..Len(s2Search) : NameMatched[resolve_name][s2Search[j]]}}
\* The candidate set: the voted ids united with the ids the name search returned.
CandidateSet == VotedIds \cup (IF searchOk = "ok" THEN SearchIds ELSE {})
\* The call has returned, having retrieved at least one DOI.
ReturnedWithDois == pc = "done" /\ ~raised /\ dois # <<>>
AllDoisAnswered == Len(doiOk) = Len(dois) /\ \A j \in 1..Len(doiOk) : doiOk[j]

C5_LargestOfAll ==
    (pc = "done" /\ ~raised /\ result # None) =>
        /\ result \in CandidateSet
        /\ \A c \in CandidateSet : paperCount[c] <= paperCount[result]

\* C5 amended: a returned id is a candidate, and no candidate whose paperCount
\* request was answered has a count strictly larger than the count obtained for
\* the returned id (0 when its own request failed).
C5_LargestOfAnswered ==
    (pc = "done" /\ ~raised /\ result # None) =>
        /\ result \in CandidateSet
        /\ \A c \in CandidateSet \cap pickOk :
               paperCount[c] <= (IF result \in pickOk THEN paperCount[result] ELSE 0)

\* Three candidates, all answered, and the returned id is not the first one.
C5_Witness ==
    /\ pc = "done" /\ ~raised /\ result # None
    /\ Len(candidates) = 3 /\ pickOk = Range(candidates)
    /\ result # candidates[1]
    /\ paperCount[result] > paperCount[candidates[1]]

\* The votes the answered DOI lookups give to an id.
RECURSIVE ExpectedVotes(_, _)
ExpectedVotes(id, j) ==
    IF j = 0 THEN 0
    ELSE ExpectedVotes(id, j - 1)
         + (IF doiOk[j]
            THEN Cardinality({k \in DoiVoters(j) : s2Authors[dois[j]][k].authorId = id})
            ELSE 0)

\* C6: resolve_s2_id never raises, whatever requests fail: until it returns, its
\* next step (a DOI lookup, the name search, a paperCount request) can be taken,
\* and it returns an id or None.  A failed request contributes nothing and the
\* answered ones are used: the votes are those of the answered DOI lookups, a
\* failed name search leaves the voted ids as candidates, and with a vote an id
\* is returned.
C6_NeverRaises ==
    /\ ~raised
    /\ pc \in {"start", "lookup", "search", "pick", "done"}
    /\ pc = "lookup" => doi_i \in 1..Len(dois)
    /\ pc = "search" => CounterKeys(id_counts) # {}
    /\ pc = "pick" => cand_k \in 1..Len(candidates)
    /\ pc = "done" => result \in AuthorIds \cup {None}
    /\ \A id \in AuthorIds : id_counts[id] = ExpectedVotes(id, Len(doiOk))
    /\ (pc = "done" /\ VotedIds # {}) => result \in CandidateSet

\* A DOI lookup failed and another voted, the name search failed, a paperCount
\* request failed, and the call returned an id.
C6_Witness ==
    /\ pc = "done" /\ ~raised /\ result \in AuthorIds
    /\ \E i, j \in 1..Len(doiOk) : doiOk[i] /\ ~doiOk[j]
    /\ searchOk = "failed"
    /\ pickOk # Range(candidates)

(***************************************************************************)
(* Properties of the affiliation merger                                    *)
(***************************************************************************)

AffReturned == aff_pc = "done" /\ ~aff_raised
InstitutionAt(i) == aff_results[i].institution

\* C7: in the list fetch_affiliations returns, for every pair of positions
\* i < j the normalized institution names differ and their similarity ratio,
\* SequenceMatcher's ratio of the name at i and the name at j, is at most 0.8.
C7_NoSimilarPair ==
    AffReturned =>
        \A i \in 1..Len(aff_results), j \in 1..Len(aff_results) :
            i < j =>
                /\ NormalizedName[InstitutionAt(i)] # NormalizedName[InstitutionAt(j)]
                /\ ~RatioAboveThreshold(NormalizedName[InstitutionAt(i)],
                                        NormalizedName[InstitutionAt(j)])

\* The tag the merge gives the records of a provider, and the providers' richness.
SourceTag(p) == IF p = "s2" THEN "semantic_scholar" ELSE p
Richness(source) ==
    CASE source = "orcid" -> 1 [] source = "openalex" -> 2 [] source = "semantic_scholar" -> 3
\* The records a provider's task returned, S2's names as the records the merge makes of them.
TaskRecords(p) == IF p = "s2" THEN S2Records(task_value[p]) ELSE task_value[p]
Untagged(r) ==
    [institution |-> r.institution, city |-> r.city, country |-> r.country,
     current |-> r.current]
KeptFrom(p) ==
    LET kept == SelectSeq(aff_results, LAMBDA r : r.source = SourceTag(p))
    IN  [i \in 1..Len(kept) |-> Untagged(kept[i])]
RECURSIVE IsSubsequence(_, _)
IsSubsequence(a, b) ==
    IF a = <<>> THEN TRUE
    ELSE IF b = <<>> THEN FALSE
    ELSE IF Head(a) = Head(b) THEN IsSubsequence(Tail(a), Tail(b))
    ELSE IsSubsequence(a, Tail(b))
\* The normalized names the providers returned, and who returned each.
ReturnedBy(norm) ==
    {p \in Providers :
        \E i \in 1..Len(TaskRecords(p)) : NormalizedName[TaskRecords(p)[i].institution] = norm}
ReturnedNorms ==
    UNION {{NormalizedName[TaskRecords(p)[i].institution] : i \in 1..Len(TaskRecords(p))} :
              p \in Providers}
SharedNorms == {norm \in ReturnedNorms : Cardinality(ReturnedBy(norm)) >= 2}
PositionsOf(norm) ==
    {i \in 1..Len(aff_results) : NormalizedName[InstitutionAt(i)] = norm}
RichestOf(norm) ==
    CHOOSE p \in ReturnedBy(norm) :
        \A q \in ReturnedBy(norm) : Richness(SourceTag(p)) <= Richness(SourceTag(q))
RichnessFirst ==
    /\ \A i \in 1..Len(aff_results), j \in 1..Len(aff_results) :
          i < j => Richness(aff_results[i].source) <= Richness(aff_results[j].source)
    /\ \A i \in 1..Len(aff_results) :
          aff_results[i].source \in {SourceTag(p) : p \in Providers}
    /\ \A p \in Providers : IsSubsequence(KeptFrom(p), TaskRecords(p))

ProviderData(p) ==
    CASE p = "s2" -> S2Affiliations(s2_data)
      [] p = "orcid" -> OrcidRecords(orcid_data, {})
      [] p = "openalex" -> OpenAlexAffiliations(openalex_data)
Contribution(p) == IF task_ok[p] THEN ProviderData(p) ELSE <<>>
GatherOrder == <<"s2", "orcid", "openalex">>

\* C9: whatever subset of the three fetches fails (an exception, a timeout, a
\* non-success status), fetch_affiliations does not raise, and what it returns
\* is the merge of the lists of exactly the providers that succeeded, whatever
\* the order in which the three tasks finished.
C9_FailuresDegrade ==
    /\ ~aff_raised
    /\ \A p \in Providers : task_pc[p] = "done" => task_value[p] = Contribution(p)
    /\ aff_pc = "done" =>
          aff_results = MergeAffiliations(Contribution("s2"), Contribution("orcid"),
                                          Contribution("openalex"))
\* A call where a request failed, another provider's records were merged, and
\* the tasks did not finish in the order they were handed to gather.
C9_Witness ==
    /\ AffReturned
    /\ \E p \in Providers : ~task_ok[p] /\ task_requests[p] > 0
    /\ aff_results # <<>>
    /\ completed # GatherOrder

(***************************************************************************)
(* Properties of the Figshare deduplicator                                 *)
(***************************************************************************)

Deduplicated == dedup_pc = "done"
GroupOf(art) == CHOOSE i \in 1..Len(groups) : art \in Range(groups[i].items)

\* C10: an article whose declared type is one of dataset, software, code,
\* fileset is classified as standalone and grouped under its own normalized
\* title, whether or not its title matches a part-of pattern.
C10_ArtifactTypesStandalone ==
    Deduplicated =>
        \A art \in Range(articles) :
            LowerType(art.defined_type_name) \in _ARTIFACT_TYPES =>
                /\ art \in Range(standalone)
                /\ groups[GroupOf(art)].key = TitleKey[art]

\* The group key the code files an article under: the parent or author key of
\* a component, the title key of a standalone item.
GroupKeyOf(art) ==
    IF Classify[art][1] = "component" THEN Classify[art][2] ELSE TitleKey[art]

\* C11: _deduplicate_figshare returns exactly one item per distinct group key:
\* every returned item is an input item, there are as many returned items as
\* groups, no two returned items share a group key, and the item kept for a
\* group has downloads + views (missing or null counted as 0) at least that of
\* every item of the group.
C11_OnePerGroup ==
    Deduplicated =>
        /\ Range(deduped) \subseteq Range(articles)
        /\ Len(deduped) = Cardinality({GroupKeyOf(art) : art \in Range(articles)})
        /\ \A i, j \in 1..Len(deduped) :
              i # j => GroupKeyOf(deduped[i]) # GroupKeyOf(deduped[j])
        /\ \A art \in Range(articles) :
              \E i \in 1..Len(deduped) :
                  /\ GroupKeyOf(deduped[i]) = GroupKeyOf(art)
                  /\ Reuse(deduped[i]) >= Reuse(art)

\* Three articles of one group were reduced to the one with the most reuse,
\* which was not the first of the list, and one of them has a null count.
C11_Witness ==
    /\ Deduplicated /\ dedup_prev = <<>>
    /\ Len(articles) = 3 /\ Len(deduped) = 1
    /\ deduped[1] # articles[1]
    /\ \E art \in Range(articles) : art.downloads = NoCount

\* C12: deduplication is idempotent: _deduplicate_figshare applied to its own
\* result returns the same set of items.
C12_Idempotent ==
    (Deduplicated /\ dedup_prev # <<>>) =>
        Range(deduped) = Range(dedup_prev[1].deduped)

\* A list of three articles was reduced to two, and the two were deduplicated again.
C12_Witness ==
    /\ Deduplicated /\ dedup_prev # <<>>
    /\ Len(dedup_prev[1].articles) = 3
    /\ Len(dedup_prev[1].deduped) = 2
    /\ Len(deduped) = 2

\* The unrounded product Quality x Impact x Collaboration of an artifact in
\* 1/1000000, for the reuse counts and team sizes of the articles and
\* repositories above: ln(1 + r / mu) and sqrt(n) to six decimals.
Composite(it) ==
    LET r == Max(it.reuse_events, 0)
        ln == IF it.source_type = "dataset"
              THEN CASE r = 0 -> 0 [] r = 1 -> 19803 [] r = 2 -> 39221 [] r = 5 -> 95310 [] r = 7 -> 131028 [] r = 9 -> 165514
              ELSE CASE r = 0 -> 0 [] r = 5 -> 405465 [] r = 80 -> 2197225
        impact == 1000000 + ln
        n == Max(it.n_authors, 1) * Max(it.n_institutions, 1)
        collab == CASE n = 1 -> 1000000 [] n = 2 -> 1414214
        product == (impact \div 1000) * (collab \div 1000)
                   + ((impact \div 1000) * (collab % 1000)
                      + (impact % 1000) * (collab \div 1000)) \div 1000
    IN  (product * (_quality_score(it).Q \div 10)) \div 10
RECURSIVE Sum(_)
Sum(numbers) == IF numbers = <<>> THEN 0 ELSE Head(numbers) + Sum(Tail(numbers))

\* The unrounded paper impact plus the unrounded products of the deduplicated
\* articles and of the scored repositories, in 1/1000000.
FullPrecisionIndex ==
    (IF h_index > 0 THEN h_index * 100 * (10000 + Log10E4(citation_count + 1)) ELSE 0)
    + Sum([i \in 1..Len(deduped) |-> Composite(normalize_figshare_item(deduped[i]))])
    + Sum([i \in 1..Len(Take(top_repos, MaxScoredRepos)) |->
              Composite(normalize_github_item(top_repos[i]))])

Computed == qic_pc = "done"

\* C13: the aggregate is order-independent: compute_researcher_qic returns the
\* same s_index and artifact_total when two articles, or two repositories, of
\* its inputs are exchanged (hence for every permutation of either list).
C13_OrderIndependent ==
    (Computed /\ qic_prev # <<>>) =>
        /\ qic[1].s_index = qic_prev[1].s_index
        /\ qic[1].artifact_total = qic_prev[1].artifact_total

\* C14: rounding happens only after full-precision aggregation: the s_index
\* returned is the rounding to 1/100 of the unrounded paper impact plus the
\* sum of the unrounded per-artifact products.
C14_RoundAfterAggregation ==
    Computed => qic[1].s_index = RoundDiv(FullPrecisionIndex, 10000)

\* 1 when the flag is set, else 0.
Flag(b) == IF b THEN 1 ELSE 0

\* C15: the quality of every artifact is exactly 0 or lies in [5, 10]; when
\* the gate passes (public and licensed) it is
\* 5 x (1 + 0.5 has_doi + 0.3 has_readme + 0.2 is_standard_format), one of
\* 5, 6, 6.5, 7.5, 8.5, 9, 10: 10 with every bonus, 6 with the standard format
\* alone.  Quality is in 1/100.
C15_QualityRange ==
    scored # <<>> =>
        LET quality == scored[1].quality
        IN  /\ quality = 0 \/ (500 <= quality /\ quality <= 1000)
            /\ ~GateFails(item) =>
                  /\ quality = 5 * (100 + 50 * Flag(item.has_doi) + 30 * Flag(item.has_readme)
                                        + 20 * Flag(item.is_standard_format))
                  /\ quality \in {500, 600, 650, 750, 850, 900, 1000}
                  /\ (item.has_doi /\ item.has_readme /\ item.is_standard_format)
                        => quality = 1000
                  /\ (~item.has_doi /\ ~item.has_readme /\ item.is_standard_format)
                        => quality = 600

\* A public, licensed item in a standard format, without DOI or README, was
\* scored quality 6.
C15_Witness ==
    /\ scored # <<>>
    /\ item.is_public /\ item.license = "CC BY 4.0"
    /\ ~item.has_doi /\ ~item.has_readme /\ item.is_standard_format
    /\ scored[1].quality = 600

(***************************************************************************)
(* Properties of the author fetch                                          *)
(***************************************************************************)

\* The log entries of one kind of one _fetch_with_retry call.
LogOf(call, kind) == SelectSeq(fetch_log, LAMBDA e : e.call = call /\ e.kind = kind)

\* C16: one bounded retry on a 429.  In the author profile and papers fetch,
\* each rate-limited call sends at most two requests (the request and one
\* retry), waits at most once and for the fixed delay of 3 seconds, and a call
\* that was rate-limited never ends in an exception: it yields no data instead.
C16_OneRetryThenGiveUp ==
    /\ \A call \in {1, 2} :
          /\ Len(LogOf(call, "request")) <= 2
          /\ Len(LogOf(call, "sleep")) <= 1
          /\ \A i \in 1..Len(LogOf(call, "sleep")) : LogOf(call, "sleep")[i].wait = 3
    /\ fetch_raised => LogOf(fetch_call, "sleep") = <<>>

(***************************************************************************)
(* Properties of the geocoder                                              *)
(***************************************************************************)

\* C17: the shared lock enforces the Nominatim rate limit.  At most one
\* request is in flight at any time, and a request never starts less than 1.1 s
\* after the previous request completed, however that request ended.
C17_RateLimit ==
    /\ Cardinality({t \in GeoCalls : geo_pc[t] = "request"}) <= 1
    /\ \A i \in 1..Len(geo_log) - 1 :
          (geo_log[i].kind = "end" /\ geo_log[i + 1].kind = "start") =>
              geo_log[i + 1].at >= geo_log[i].at + SleepTenths

(***************************************************************************)
(* Properties of the source fetch and merge                                *)
(***************************************************************************)

\* The task of a source ended by an exception; what a task returned.
Failed(src) == fa_results[src][1].raises
Fetched(src) == fa_results[src][1].value

\* The record stands for "no data": it carries "_error" and its counts are 0
\* and its lists empty.
IsEmptyTagged(d) ==
    /\ Has(d, "_error")
    /\ \A k \in DOMAIN d \ {"_error", "name"} :
          IF k \in {"top_papers", "top_repos", "articles", "publications"}
          THEN d[k] = <<>> ELSE d[k] = 0

\* C18: a failing source never aborts the pipeline.  Whatever subset of the
\* four fetches raises, _fetch_all returns without raising; each failed
\* source is replaced by an empty record that carries "_error"; the data of each
\* source that succeeded is kept (GitHub and Figshare as returned, S2 and
\* Google Scholar in the merged academic record); and the score computation that
\* follows can always take its next step until it has returned an s_index.
C18_FailuresDegrade ==
    /\ ~fa_raised
    /\ fa_pc = "done" =>
          LET out == fa_out[1]
              local == [s2 |-> out.s2_data, gh |-> out.gh_data, fs |-> out.fs_data,
                        gs |-> out.gs_data]
              academic == out.merged_academic
          IN  /\ \A src \in Sources :
                    IF Failed(src) THEN IsEmptyTagged(local[src])
                    ELSE local[src] = Fetched(src)
              /\ (~Failed("s2") /\ Has(local["gs"], "_error")) =>
                    \A k \in DOMAIN Fetched("s2") : academic[k] = Fetched("s2")[k]
              /\ (~Failed("gs") /\ ~Has(local["gs"], "_error") /\ Has(local["s2"], "_error")) =>
                    /\ academic.h_index = Fetched("gs").h_index
                    /\ academic.citation_count = Fetched("gs").citation_count
                    /\ academic.top_papers = Fetched("gs").publications
              /\ (~Has(local["gs"], "_error") /\ ~Has(local["s2"], "_error")) =>
                    /\ academic.h_index >= Fetched("s2").h_index
                    /\ academic.h_index >= Fetched("gs").h_index
                    /\ \A i \in 1..Len(Fetched("s2").top_papers) :
                          \E j \in 1..Len(academic.top_papers) :
                              academic.top_papers[j].title = Fetched("s2").top_papers[i].title
              /\ IF qic_pc = "done"
                 THEN qic # <<>> /\ Has(qic[1], "s_index") /\ qic[1].s_index >= 0
                 ELSE ENABLED (SeparateComponents \/ GroupItems \/ PickBest \/ ScoreArtifacts)

\* Semantic Scholar and Figshare have raised, GitHub and Google Scholar have
\* returned their data, and the score has been computed.
C18_Witness ==
    /\ fa_pc = "done" /\ qic_pc = "done"
    /\ fa_ids = Sources
    /\ Failed("s2") /\ Failed("fs") /\ ~Failed("gh") /\ ~Failed("gs")
    /\ qic[1].s_index > 0

\* All four sources have raised and the score has been computed.
AllSourcesFailed ==
    fa_pc = "done" /\ qic_pc = "done" /\ \A src \in Sources : Failed(src)

(***************************************************************************)
(* Properties of the cache                                                 *)
(***************************************************************************)

\* The key's last completed set is still valid: not invalidated, not
\* overwritten by a failed set, and no more than ttl seconds old.
Fresh(key) ==
    cache_last[key] # <<>> /\ cache_now - cache_last[key][1].ts <= cache_last[key][1].ttl

\* C19: the cache contract.  Right after get(key): it has not raised; it
\* returned the data of the most recent set of the key if that entry has not been
\* invalidated and is at most ttl seconds old, and None otherwise (never expired
\* data, never a partially written file); and an expired entry's file is gone.
C19_CacheContract ==
    cache_op = "get" =>
        LET got == cache_got[1]
        IN  /\ ~got.raised
            /\ got.value = IF Fresh(got.key) THEN cache_last[got.key][1].data ELSE None
            /\ (cache_last[got.key] # <<>> /\ ~Fresh(got.key)) =>
                   cache_files[_key_path(got.key)] = <<>>

\* A get has returned the data of an entry exactly ttl seconds old, after an
\* earlier entry of the other key was evicted by a get.
C19_Witness ==
    /\ cache_op = "get"
    /\ cache_got[1].value # None
    /\ cache_now - cache_last[cache_got[1].key][1].ts = cache_last[cache_got[1].key][1].ttl
    /\ cache_last[cache_got[1].key][1].ttl > 0
    /\ \E k \in CacheKeys :
          cache_last[k] # <<>> /\ ~Fresh(k) /\ cache_files[_key_path(k)] = <<>>

(***************************************************************************)
(* Properties of the per-DOI lookups                                       *)
(***************************************************************************)

\* The requests sent and not yet answered after the first n events of the
\* latest lookup.
InFlight(n) ==
    Cardinality({i \in 1..n : doi_log[i].kind = "send"})
    - Cardinality({i \in 1..n : doi_log[i].kind = "recv"})

\* C20: the per-DOI lookups of one resolve_s2_id call are sequential.  At
\* every point of a lookup at most one request is unanswered, and all its
\* requests are for the DOI being looked up; the DOIs are looked up one after the
\* other in the order of the DOI list; and at most 8 DOIs are looked up.
C20_SequentialLookups ==
    /\ \A n \in 0..Len(doi_log) : InFlight(n) \in {0, 1}
    /\ InFlight(Len(doi_log)) = 0
    /\ \A i \in 1..Len(doi_log) : doi_log[i].doi = doi_seen[Len(doi_seen)]
    /\ doi_seen = [i \in 1..Len(doi_seen) |-> i]
    /\ Len(doi_seen) <= Len(s2Authors)
    /\ Len(doi_seen) <= 8

\* The profile has more than eight works, eight DOIs have been looked up, the
\* last one with a retry after a 429, and the call has returned.
C20_Witness ==
    /\ pc = "done"
    /\ Len(s2Authors) > 8
    /\ Len(doi_seen) = 8
    /\ \E i \in 1..Len(doi_log) : doi_log[i].kind = "sleep"

(***************************************************************************)
(* Properties of the resolver: invalid input                               *)
(***************************************************************************)

\* The call was made with an empty identifier or an empty display name.
InvalidInput == pc # "idle" /\ (resolve_orcid = "" \/ resolve_name = <<>>)

\* C21: a resolve_s2_id call with an empty identifier or an empty display name
\* short-circuits: it sends no request to ORCID and looks no DOI up on Semantic
\* Scholar, and once it has ended it has returned None without raising.
C21_InvalidInputShortCircuits ==
    InvalidInput =>
        /\ orcid_requests = 0
        /\ doi_seen = <<>>
        /\ pc \in {"start", "done"}
        /\ pc = "done" => (result = None /\ ~raised)

(***************************************************************************)
(* Properties of the affiliation merger: the returned records              *)
(***************************************************************************)

\* C22: every record of the list fetch_affiliations returns has a non-empty
\* institution, whatever the three providers answered.
C22_InstitutionNonEmpty ==
    AffReturned => \A i \in 1..Len(aff_results) : InstitutionAt(i) # ""

(***************************************************************************)
(* Properties of the author fetch: what is cached                          *)
(***************************************************************************)

\* The _fetch_with_retry call (1 the author, 2 the papers) has returned the {} of
\* line 26: every one of its attempts was answered 429.
FellBack(call) == Len(fetch_raw) >= call /\ Len(LogOf(call, "sleep")) = retries

\* C23: a result for which the author request or the papers request fell back
\* to the empty rate-limit response is not stored in the cache.
C23_CacheOnlyRealData ==
    (fetch_pc = "done" /\ ~fetch_raised /\ (FellBack(1) \/ FellBack(2))) =>
        author_cache = <<>>

(***************************************************************************)
(* Properties of the resolver: the returned id and the votes               *)
(***************************************************************************)

\* C24: the id resolve_s2_id returns is a most-frequent one: no id has more
\* votes in id_counts, the counter of the name-matched authors of the DOI
\* lookups, than the returned id.
C24_MajorityId ==
    (pc = "done" /\ ~raised /\ result # None) =>
        \A id \in AuthorIds : id_counts[result] >= id_counts[id]

(***************************************************************************)
(* Properties of the update tokens                                         *)
(***************************************************************************)

\* C25: after any sequence of create_update_token and verify_update_token
\* calls, each issued code has made verify_update_token return True at most
\* once, and a call that returned True was answered by a token issued for the
\* slug of the call with the code of the call, which at the call was not used,
\* had fewer than five attempts and was not older than one hour.
C25_TokenSingleUse ==
    /\ \A i \in 1..Len(tok_hits) : tok_hits[i] <= 1
    /\ (tok_last # <<>> /\ tok_last[1].returned) =>
          LET call == tok_last[1]
          IN  /\ call.row.slug = call.slug
              /\ tok_issued[call.id].code = call.code
              /\ call.row.used = 0
              /\ call.row.attempts < MaxAttempts
              /\ tok_now - tok_issued[call.id].at <= HourTicks

\* A token is accepted at its fifth attempt, after a token of the same slug
\* was spent and another call was refused.
C25_Witness ==
    /\ tok_last # <<>> /\ tok_last[1].returned
    /\ tok_last[1].row.attempts = MaxAttempts - 1
    /\ \E i \in 1..Len(tok_rows) : i # tok_last[1].id /\ tok_rows[i].used = 1

(***************************************************************************)
(* Properties of the rate limiters                                         *)
(***************************************************************************)

\* The calls with key `key` that limiter `lim` allowed at a time in `interval`.
AllowedIn(lim, key, interval) ==
    Cardinality({i \in 1..Len(rl_allowed[lim][key]) : rl_allowed[lim][key][i] \in interval})

\* The times of `times` that lie in the window of `lim` that ends now.
InWindow(lim, times) == SelectSeq(times, LAMBDA t : t > rl_now - window(lim))

\* C26 as stated: for every limiter, every key and every interval of length
\* window_seconds, its two ends included, is_allowed returned True for at most
\* max_requests calls made in the interval.  The state predicate looks at the
\* interval that ends now; as an invariant it speaks of every interval.
C26_ClosedWindow ==
    rl_now >= 0 =>
        \A lim \in Limiters : \A key \in KeysOf(lim) :
            AllowedIn(lim, key, (rl_now - window(lim))..rl_now) <= max_requests(lim)

\* C26: for every limiter, every key and every interval of length
\* window_seconds that is open at its start and closed at its end, is_allowed
\* returned True for at most max_requests calls made in the interval; the hits
\* recorded for the interval are the allowed calls, a denied call is not recorded.
C26_SlidingWindow ==
    rl_now >= 0 =>
        \A lim \in Limiters : \A key \in KeysOf(lim) :
            /\ AllowedIn(lim, key, (rl_now - window(lim) + 1)..rl_now) <= max_requests(lim)
            /\ InWindow(lim, rl_hits[lim][key]) = InWindow(lim, rl_allowed[lim][key])

\* A request has just been refused by a per-IP limiter whose window is full,
\* while a hit recorded for the key has left the window.
C26_Witness ==
    /\ chat_last # <<>> /\ chat_last[1].status = "429"
    /\ \E lim \in {"chat_ip", "byok_ip"} :
          LET key == chat_last[1].ip
          IN  /\ (lim = "byok_ip") = (chat_last[1].endpoint = "/chat/byok")
              /\ Len(rl_hits[lim][key]) = max_requests(lim)
              /\ \E t \in 0..rl_now : t <= rl_now - window(lim) /\ t \in Range(rl_allowed[lim][key])

(***************************************************************************)
(* Properties of the chat endpoint: the two limiters                       *)
(***************************************************************************)

\* C28: a /chat request that the per-IP limiter rejects with 429 does not
\* consume a slot of the global daily limiter: the hits the daily limiter
\* holds within its window are the same after the request as before it.
C28_RejectedNotCounted ==
    [][(chat_last' # <<>> /\ chat_last'[1].endpoint = "/chat" /\ chat_last'[1].status = "429")
         => InWindow("chat_daily", rl_hits'["chat_daily"]["__global__"])
              = InWindow("chat_daily", rl_hits["chat_daily"]["__global__"])]_vars

(***************************************************************************)
(* Properties of the source merge: the sources reported                    *)
(***************************************************************************)

\* C29: the merged academic record lists "semantic_scholar" in _sources, and
\* get_context reports Semantic Scholar as connected, only if the Semantic
\* Scholar fetch of the request returned data without an "_error" marker; when
\* neither Semantic Scholar nor Google Scholar is available, neither is
\* reported as connected.
C29_SourcesReported ==
    fa_pc = "done" =>
        LET out == fa_out[1]
            s2_ok == ~Failed("s2") /\ ~Has(out.s2_data, "_error")
            gs_ok == ~Failed("gs") /\ ~Has(out.gs_data, "_error")
        IN  /\ academic_info(out.merged_academic, "semantic_scholar") = "connected" => s2_ok
            /\ (~s2_ok /\ ~gs_ok) =>
                  academic_info(out.merged_academic, "google_scholar") = "error"

(***************************************************************************)
(* Properties of the name matcher: symmetry                                *)
(***************************************************************************)

\* C27: name matching is symmetric: what _name_matches(display_name,
\* author_name) returned is what _name_matches(author_name, display_name)
\* returns.
C27_Symmetric ==
    matched # <<>> => matched[1] = _name_matches(author_name, display_name)

\* The call matched a full given name against its initial, the initial being
\* in the second argument, in names of different numbers of tokens.
C27_Witness ==
    /\ matched = <<TRUE>>
    /\ Len(GivenOf(display_name)) = 2 /\ Len(GivenOf(author_name)) = 1
    /\ Len(GivenOf(author_name)[1]) = 1
    /\ \A i \in 1..2 : Len(GivenOf(display_name)[i]) = 2

(***************************************************************************)
(* Properties of the Figshare deduplicator: the group keys                 *)
(***************************************************************************)

\* C30: the groups of standalone artifacts and the groups of paper components
\* are disjoint: no group holds both an article that phase 1 classified as
\* standalone and one that it classified as a component.
C30_GroupsDisjoint ==
    \A g \in 1..Len(groups) :
        \A i, j \in 1..Len(groups[g].items) :
            Classify[groups[g].items[i]][1] = Classify[groups[g].items[j]][1]
====
